---- MODULE Spec2Model ----
(***************************************************************************)
(* Verification model of the Loki mood tracker backend: the trust level    *)
(* state machine (app/services/trust_level_service.py), the TTL caches and *)
(* their invalidation (app/core/caching.py), the CRUD layer that uses them *)
(* (app/crud/mood.py) and the message ingestion handlers                   *)
(* (app/api/routes/chat.py, whatsapp.py, twilio.py).                       *)
(*                                                                         *)
(* Several specifications share the variables below:                       *)
(*   SpecLevel     calculate_trust_level as a pure function of its input   *)
(*   SpecTrustSeq  one caller issuing trust operations one after another   *)
(*   SpecTrust     several database sessions running update_trust_level     *)
(*   SpecHabitos   one caller issuing the habit CRUD operations            *)
(*   SpecIngest    one caller issuing whole message / reset handlers       *)
(*   SpecCache     several threads inside the cache decorators             *)
(*   SpecReads     cached reads against TTLCaches of bounded size          *)
(*   SpecPatterns  analyze_user_patterns runs with their write-back        *)
(*   SpecInsights  get_relevant_insights_for_conversation                  *)
(*   SpecEmotion   detect_emotional_cycles and analyze_resilience          *)
(*   SpecStreak    _detect_positive_streak over a growing mood table       *)
(*   SpecChat      chat_with_loki with a write step that may raise         *)
(*   SpecCorrelaciones  analysis runs in concurrent database sessions      *)
(***************************************************************************)
EXTENDS Integers, FiniteSets, Sequences, TLC

VARIABLES
    usuarios,               \* table usuarios: id -> row or NoRow
    habitos,                \* table habitos: id -> row or NoRow
    correlaciones,          \* table correlaciones: the rows in the order of their ids
    usuario_cache,          \* caching.usuario_cache: usuario_id -> value or Absent
    habitos_activos_cache,  \* caching.habitos_activos_cache
    trust_level_cache,      \* caching.trust_level_cache
    stats,                  \* caching.stats: namespace -> CacheStats
    pc,                     \* position of each session / thread in its operation
    loc,                    \* locals of each session / thread
    ret,                    \* value returned by the last completed operation
    hist,                   \* bookkeeping of completed operations (observer only)
    arg,                    \* inputs of the pure-function specifications
    out                     \* outputs of the pure-function specifications

dbVars    == <<usuarios, habitos, correlaciones>>
cacheVars == <<usuario_cache, habitos_activos_cache, trust_level_cache, stats>>
reqVars   == <<pc, loc>>
fnVars    == <<arg, out>>
vars      == <<usuarios, habitos, correlaciones, usuario_cache, habitos_activos_cache,
               trust_level_cache, stats, pc, loc, ret, hist, arg, out>>

----------------------------------------------------------------------------
(* Bounds of the model *)

MaxCount    == 103   \* largest interaction count explored by the sequential trust specs
NumUsuarios == 2     \* user ids 1..NumUsuarios
NumSessions == 3     \* concurrent database sessions in SpecTrust
MaxCalls    == 12    \* update_trust_level calls completed in SpecTrust
MaxHabitos  == 1     \* habit ids 1..MaxHabitos
MaxStat     == 2     \* largest value a CacheStats counter takes
MaxInteracciones == 2  \* largest interaction count in SpecIngest
MaxMensajes == 2     \* inbound messages handled per user in SpecIngest
NumDuenos   == 1     \* users of SpecHabitos, telephone numbers of SpecIngest
NumThreads  == 2     \* threads running cache operations in SpecCache
MaxOps      == 4     \* operations started and entries expired in SpecCache
NumClaves   == 4     \* user ids 1..NumClaves in SpecReads
Maxsize     == 2     \* maxsize of a TTLCache in SpecReads (1000 / 500 in caching.py)
MaxMuestras == 19    \* largest number of mood samples of one day in SpecPatterns
MaxReloj    == 1     \* clock value up to which an analysis run starts in SpecPatterns
MaxFilas    == 4     \* rows of the correlations table in SpecCorrelaciones
MaxPorFranja == 2    \* mood samples sharing one timestamp in SpecEmotion
MaxDiasRacha == 8    \* days with mood samples in SpecStreak

Usuarios  == 1..NumUsuarios
Sessions  == 1..NumSessions
HabitoIds == 1..MaxHabitos
Namespaces == {"usuario", "habitos_activos", "trust_level"}

NoRow  == [exists |-> FALSE]
Absent == [cached |-> FALSE]
NoRet  == [op |-> "none"]

----------------------------------------------------------------------------
(* Trust level service *)

\* TRUST_LEVELS[n]['range'][0]: first count of each level
TrustRangeStart(nivel) ==
    CASE nivel = 1 -> 1
      [] nivel = 2 -> 11
      [] nivel = 3 -> 31
      [] nivel = 4 -> 61
      [] OTHER     -> 101

calculate_trust_level_off_by_one(total_interacciones) ==
    IF total_interacciones < 10 THEN 1
    ELSE IF total_interacciones <= 30 THEN 2
    ELSE IF total_interacciones <= 60 THEN 3
    ELSE IF total_interacciones <= 100 THEN 4
    ELSE 5

calculate_trust_level(total_interacciones) ==
    IF total_interacciones <= 10 THEN 1
    ELSE IF total_interacciones <= 30 THEN 2
    ELSE IF total_interacciones <= 60 THEN 3
    ELSE IF total_interacciones <= 100 THEN 4
    ELSE 5

\* Usuario(...) with the column defaults nivel_confianza=1, total_interacciones=0
NewUsuario(nombre) ==
    [exists |-> TRUE, nombre |-> nombre, nivel_confianza |-> 1, total_interacciones |-> 0]

\* The row update_trust_level leaves in its session before the commit
TrustUpdatedRow(row) ==
    [row EXCEPT !.total_interacciones = row.total_interacciones + 1,
                !.nivel_confianza = calculate_trust_level(row.total_interacciones + 1)]

\* The dictionary update_trust_level returns, from the row it loaded
TrustUpdateResultNoCompare(usuario_id, row) ==
    LET nivel_anterior == row.nivel_confianza
        nivel_nuevo    == calculate_trust_level(row.total_interacciones + 1)
    IN  [op |-> "update_trust_level", usuario_id |-> usuario_id, error |-> FALSE,
         total_interacciones |-> row.total_interacciones + 1,
         nivel_confianza |-> nivel_nuevo,
         nivel_anterior |-> nivel_anterior,
         nivel_cambio |-> nivel_nuevo >= nivel_anterior]

TrustUpdateResult(usuario_id, row) ==
    LET nivel_anterior == row.nivel_confianza
        nivel_nuevo    == calculate_trust_level(row.total_interacciones + 1)
    IN  [op |-> "update_trust_level", usuario_id |-> usuario_id, error |-> FALSE,
         total_interacciones |-> row.total_interacciones + 1,
         nivel_confianza |-> nivel_nuevo,
         nivel_anterior |-> nivel_anterior,
         nivel_cambio |-> nivel_nuevo > nivel_anterior]

TrustUpdateError(usuario_id) ==
    [op |-> "update_trust_level", usuario_id |-> usuario_id, error |-> TRUE]

\* get_user_trust_info counting up to the last count of the current level
TrustInfoToRangeEnd(usuario_id, row) ==
    LET next_level == IF row.nivel_confianza + 1 < 5 THEN row.nivel_confianza + 1 ELSE 5
        threshold  == TrustRangeStart(next_level) - 1
        hasta      == IF threshold - row.total_interacciones > 0
                      THEN threshold - row.total_interacciones ELSE 0
    IN  [op |-> "get_user_trust_info", usuario_id |-> usuario_id, found |-> TRUE,
         total_interacciones |-> row.total_interacciones,
         nivel_confianza |-> row.nivel_confianza,
         mensajes_hasta_siguiente_nivel |->
             IF next_level > row.nivel_confianza THEN hasta ELSE 0,
         es_nivel_maximo |-> row.nivel_confianza = 5]

\* The dictionary get_user_trust_info returns for an existing row
TrustInfo(usuario_id, row) ==
    LET next_level == IF row.nivel_confianza + 1 < 5 THEN row.nivel_confianza + 1 ELSE 5
        threshold  == TrustRangeStart(next_level)
        hasta      == IF threshold - row.total_interacciones > 0
                      THEN threshold - row.total_interacciones ELSE 0
    IN  [op |-> "get_user_trust_info", usuario_id |-> usuario_id, found |-> TRUE,
         total_interacciones |-> row.total_interacciones,
         nivel_confianza |-> row.nivel_confianza,
         mensajes_hasta_siguiente_nivel |->
             IF next_level > row.nivel_confianza THEN hasta ELSE 0,
         es_nivel_maximo |-> row.nivel_confianza = 5]

TrustInfoNone(usuario_id) ==
    [op |-> "get_user_trust_info", usuario_id |-> usuario_id, found |-> FALSE]

----------------------------------------------------------------------------
(* Values shared by the initial states *)

EmptyStats == [ns \in Namespaces |-> [hits |-> 0, misses |-> 0, invalidations |-> 0]]
EmptyCache == [u \in Usuarios |-> Absent]
NoHabitos  == [h \in HabitoIds |-> NoRow]
NoCorrelaciones == <<>>
IdleHist   == [calls |-> 0, mensajes |-> [u \in Usuarios |-> 0],
               escrito |-> [u \in Usuarios |-> FALSE]]

InitCaches ==
    /\ usuario_cache = EmptyCache
    /\ habitos_activos_cache = EmptyCache
    /\ trust_level_cache = EmptyCache
    /\ stats = EmptyStats

InitNoRequests ==
    /\ pc = [s \in Sessions |-> "idle"]
    /\ loc = [s \in Sessions |-> NoRow]

InitNoFn ==
    /\ arg = <<>>
    /\ out = <<>>

----------------------------------------------------------------------------
(* SpecLevel: calculate_trust_level applied to inputs drawn from 0..MaxCount *)

InitLevel ==
    /\ arg \in [a : 0..MaxCount, b : 0..MaxCount]
    /\ out = [evaluated |-> FALSE]
    /\ usuarios = [u \in Usuarios |-> NoRow]
    /\ habitos = NoHabitos
    /\ correlaciones = NoCorrelaciones
    /\ InitCaches
    /\ InitNoRequests
    /\ ret = NoRet
    /\ hist = IdleHist

EvaluateLevel ==
    /\ out' = [evaluated |-> TRUE,
               la |-> calculate_trust_level(arg.a),
               lb |-> calculate_trust_level(arg.b)]
    /\ UNCHANGED <<dbVars, cacheVars, reqVars, ret, hist, arg>>

NextLevel == EvaluateLevel

SpecLevel == InitLevel /\ [][NextLevel]_vars

\* The step function the claim describes, written out independently of the code
LevelTable(count) ==
    CASE count <= 10                 -> 1
      [] count >= 11 /\ count <= 30  -> 2
      [] count >= 31 /\ count <= 60  -> 3
      [] count >= 61 /\ count <= 100 -> 4
      [] count >= 101                -> 5

\* C4: calculate_trust_level maps counts up to 10 to level 1, 11..30 to 2,
\* 31..60 to 3, 61..100 to 4 and 101 or more to 5, is non-decreasing in the
\* count, and gives equal levels for equal counts.
C4_LevelStepFunction ==
    out.evaluated =>
        /\ out.la = LevelTable(arg.a)
        /\ out.lb = LevelTable(arg.b)
        /\ (arg.a <= arg.b => out.la <= out.lb)
        /\ (arg.a = arg.b => out.la = out.lb)
        /\ (arg.a = 10 => out.la = 1) /\ (arg.a = 11 => out.la = 2)
        /\ (arg.a = 30 => out.la = 2) /\ (arg.a = 31 => out.la = 3)
        /\ (arg.a = 60 => out.la = 3) /\ (arg.a = 61 => out.la = 4)
        /\ (arg.a = 100 => out.la = 4) /\ (arg.a = 101 => out.la = 5)

\* A boundary pair has been evaluated: 100 and 101 fall on different levels
C4_Witness ==
    /\ out.evaluated
    /\ arg.a = 100 /\ arg.b = 101
    /\ out.la = 4 /\ out.lb = 5

----------------------------------------------------------------------------
(* Trust operations on the usuarios table *)

\* db.commit() of a dirty Usuario: the ORM's UPDATE sets the columns whose value
\* differs from the one the session loaded, and leaves the others as they are
FlushUsuario(current, loaded, updated) ==
    [current EXCEPT
        !.total_interacciones =
            IF updated.total_interacciones # loaded.total_interacciones
            THEN updated.total_interacciones ELSE @,
        !.nivel_confianza =
            IF updated.nivel_confianza # loaded.nivel_confianza
            THEN updated.nivel_confianza ELSE @,
        !.nombre = IF updated.nombre # loaded.nombre THEN updated.nombre ELSE @]

\* The state the operations work on: the two tables, the three caches, the stats
World ==
    [usuarios |-> usuarios, habitos |-> habitos, usuario_cache |-> usuario_cache,
     habitos_activos_cache |-> habitos_activos_cache,
     trust_level_cache |-> trust_level_cache, stats |-> stats]

Install(w) ==
    /\ usuarios' = w.usuarios
    /\ habitos' = w.habitos
    /\ UNCHANGED correlaciones
    /\ usuario_cache' = w.usuario_cache
    /\ habitos_activos_cache' = w.habitos_activos_cache
    /\ trust_level_cache' = w.trust_level_cache
    /\ stats' = w.stats

\* update_trust_level(db, usuario_id), run without interruption
update_trust_level(w, u) ==
    IF ~w.usuarios[u].exists
    THEN [w |-> w, result |-> TrustUpdateError(u)]
    ELSE [w |-> [w EXCEPT !.usuarios[u] =
                    FlushUsuario(@, w.usuarios[u], TrustUpdatedRow(w.usuarios[u]))],
          result |-> TrustUpdateResult(u, w.usuarios[u])]

\* get_user_trust_info(db, usuario_id): a plain query, no cache decorator
get_user_trust_info(w, u) ==
    [w |-> w,
     result |-> IF w.usuarios[u].exists THEN TrustInfo(u, w.usuarios[u])
                ELSE TrustInfoNone(u)]

----------------------------------------------------------------------------
(* app/core/caching.py *)

\* CacheStats.hit / miss / invalidate
hit(st, ns)        == [st EXCEPT ![ns].hits = @ + 1]
miss(st, ns)       == [st EXCEPT ![ns].misses = @ + 1]
invalidate(st, ns) == [st EXCEPT ![ns].invalidations = @ + 1]

\* The TTLCache of a namespace; its keys f"<namespace>:{usuario_id}" are the user ids
CacheOf(w, ns) ==
    CASE ns = "usuario"         -> w.usuario_cache
      [] ns = "habitos_activos" -> w.habitos_activos_cache
      [] ns = "trust_level"     -> w.trust_level_cache

WithCache(w, ns, c) ==
    CASE ns = "usuario"         -> [w EXCEPT !.usuario_cache = c]
      [] ns = "habitos_activos" -> [w EXCEPT !.habitos_activos_cache = c]
      [] ns = "trust_level"     -> [w EXCEPT !.trust_level_cache = c]

Entry(v) == [cached |-> TRUE, value |-> v]

\* wrapper: `if cache_key in cache: stats.hit() ...` / `stats.miss()`
WrapperLookup(w, ns, u) ==
    IF CacheOf(w, ns)[u].cached
    THEN [w EXCEPT !.stats = hit(@, ns)]
    ELSE [w EXCEPT !.stats = miss(@, ns)]

\* wrapper: `if result is not None: cache[cache_key] = result`
WrapperStore(w, ns, u, result, is_none) ==
    IF is_none THEN w
    ELSE WithCache(w, ns, [CacheOf(w, ns) EXCEPT ![u] = Entry(result)])

\* A decorated call run without interruption; `result` is what the wrapped
\* function returns on the state w
Wrapper(w, ns, u, result, is_none) ==
    IF CacheOf(w, ns)[u].cached
    THEN [w |-> WrapperLookup(w, ns, u), result |-> CacheOf(w, ns)[u].value,
          hit |-> TRUE]
    ELSE [w |-> WrapperStore(WrapperLookup(w, ns, u), ns, u, result, is_none),
          result |-> result, hit |-> FALSE]

\* `if cache_key in cache: del cache[cache_key]; stats.invalidate()`
InvalidateKeyKeepsEntry(w, ns, u) ==
    IF CacheOf(w, ns)[u].cached THEN [w EXCEPT !.stats = invalidate(@, ns)] ELSE w

InvalidateKey(w, ns, u) ==
    IF CacheOf(w, ns)[u].cached
    THEN [WithCache(w, ns, [CacheOf(w, ns) EXCEPT ![u] = Absent])
            EXCEPT !.stats = invalidate(@, ns)]
    ELSE w

invalidate_usuario_cache(w, u)     == InvalidateKey(w, "usuario", u)
invalidate_habitos_cache(w, u)     == InvalidateKey(w, "habitos_activos", u)
invalidate_trust_level_cache(w, u) == InvalidateKey(w, "trust_level", u)

invalidate_all_user_caches(w, u) ==
    invalidate_trust_level_cache(
        invalidate_habitos_cache(invalidate_usuario_cache(w, u), u), u)

\* The invalidation function of namespace ns
InvalidateFn(w, ns, u) ==
    CASE ns = "usuario" -> invalidate_usuario_cache(w, u)
      [] ns = "habitos_activos" -> invalidate_habitos_cache(w, u)
      [] ns = "trust_level" -> invalidate_trust_level_cache(w, u)

\* The TTL of an entry elapses: TTLCache drops it
ExpireKey(w, ns, u) == WithCache(w, ns, [CacheOf(w, ns) EXCEPT ![u] = Absent])

----------------------------------------------------------------------------
(* app/crud/mood.py *)

HabitNames    == {"correr", "leer"}
ActivoFilters == {"None", "True", "False"}

\* @cached_usuario get_usuario(db, usuario_id)
get_usuario(w, u) ==
    Wrapper(w, "usuario", u, w.usuarios[u], ~w.usuarios[u].exists)

HabitoRecord(w, h) ==
    [id |-> h, usuario_id |-> w.habitos[h].usuario_id,
     nombre_habito |-> w.habitos[h].nombre_habito, activo |-> w.habitos[h].activo]

\* db.query(Habito).filter(usuario_id == u)[.filter(activo == activo)].all()
QueryHabitos(w, u, activo) ==
    {HabitoRecord(w, h) : h \in {k \in HabitoIds :
        /\ w.habitos[k].exists
        /\ w.habitos[k].usuario_id = u
        /\ (activo = "None" \/ w.habitos[k].activo = (activo = "True"))}}

\* @cached_habitos_activos get_habitos_by_usuario(db, usuario_id, activo)
get_habitos_by_usuario(w, u, activo) ==
    IF activo = "True"
    THEN Wrapper(w, "habitos_activos", u, QueryHabitos(w, u, activo), FALSE)
    ELSE [w |-> w, result |-> QueryHabitos(w, u, activo), hit |-> FALSE]

HasFreeId(w) == \E h \in HabitoIds : ~w.habitos[h].exists
NextHabitoId(w) ==
    CHOOSE h \in HabitoIds :
        /\ ~w.habitos[h].exists
        /\ \A k \in HabitoIds : ~w.habitos[k].exists => h <= k

\* db.add(db_habito); db.commit(); db.refresh(db_habito)
InsertHabito(w, u, nombre, activo) ==
    [w EXCEPT !.habitos[NextHabitoId(w)] =
        [exists |-> TRUE, usuario_id |-> u, nombre_habito |-> nombre, activo |-> activo]]

create_habito_without_invalidation(w, u, nombre, activo) ==
    [w |-> InsertHabito(w, u, nombre, activo),
     result |-> HabitoRecord(InsertHabito(w, u, nombre, activo), NextHabitoId(w))]

create_habito(w, u, nombre, activo) ==
    [w |-> invalidate_habitos_cache(InsertHabito(w, u, nombre, activo), u),
     result |-> HabitoRecord(InsertHabito(w, u, nombre, activo), NextHabitoId(w))]

\* setattr(db_habito, key, value) for the fields set in the update; db.commit()
HabitoUpdates ==
    [activo : BOOLEAN] \cup [nombre_habito : HabitNames]

ApplyHabitoUpdate(w, h, update_data) ==
    [w EXCEPT !.habitos[h] =
        [f \in DOMAIN @ |-> IF f \in DOMAIN update_data THEN update_data[f] ELSE @[f]]]

update_habito(w, h, update_data) ==
    IF w.habitos[h].exists
    THEN [w |-> invalidate_habitos_cache(ApplyHabitoUpdate(w, h, update_data),
                                         w.habitos[h].usuario_id),
          result |-> HabitoRecord(ApplyHabitoUpdate(w, h, update_data), h), found |-> TRUE]
    ELSE [w |-> w, result |-> NoRow, found |-> FALSE]

\* db.delete(db_habito); db.commit()
RemoveHabito(w, h) == [w EXCEPT !.habitos[h] = NoRow]

delete_habito(w, h) ==
    IF w.habitos[h].exists
    THEN [w |-> invalidate_habitos_cache(RemoveHabito(w, h), w.habitos[h].usuario_id),
          result |-> HabitoRecord(w, h), found |-> TRUE]
    ELSE [w |-> w, result |-> NoRow, found |-> FALSE]

\* create_usuario: the row with its column defaults (telefono is unique)
create_usuario(w, u, nombre) == [w EXCEPT !.usuarios[u] = NewUsuario(nombre)]

----------------------------------------------------------------------------
(* SpecTrustSeq: user 1 freshly created, trust operations one after another *)

InitOneUsuario ==
    /\ usuarios = [u \in Usuarios |-> IF u = 1 THEN NewUsuario("Usuario") ELSE NoRow]
    /\ habitos = NoHabitos
    /\ correlaciones = NoCorrelaciones
    /\ InitCaches
    /\ InitNoRequests
    /\ InitNoFn
    /\ ret = NoRet
    /\ hist = IdleHist

SeqUpdateTrustLevel ==
    \E u \in Usuarios :
        LET r == update_trust_level(World, u)
        IN  /\ usuarios[u].exists => usuarios[u].total_interacciones < MaxCount
            /\ Install(r.w)
            /\ ret' = r.result
            /\ hist' = IF r.result.error THEN hist ELSE [hist EXCEPT !.calls = @ + 1]
            /\ UNCHANGED <<reqVars, fnVars>>

SeqGetUserTrustInfo ==
    \E u \in Usuarios :
        LET r == get_user_trust_info(World, u)
        IN  /\ Install(r.w)
            /\ ret' = r.result
            /\ UNCHANGED <<hist, reqVars, fnVars>>

NextTrustSeq == SeqUpdateTrustLevel \/ SeqGetUserTrustInfo

SpecTrustSeq == InitOneUsuario /\ [][NextTrustSeq]_vars

LevelUpCounts == {11, 31, 61, 101}

C6_ReturnedLevels ==
    (ret.op = "update_trust_level" /\ ~ret.error) =>
        /\ usuarios[ret.usuario_id].total_interacciones = ret.total_interacciones
        /\ ret.nivel_confianza = LevelTable(ret.total_interacciones)
        /\ ret.nivel_anterior = LevelTable(ret.total_interacciones - 1)
        /\ (ret.nivel_cambio <=> ret.nivel_confianza # ret.nivel_anterior)
        /\ (ret.nivel_cambio <=> ret.total_interacciones \in LevelUpCounts)
        /\ (ret.total_interacciones = 11 =>
               ret.nivel_anterior = 1 /\ ret.nivel_confianza = 2 /\ ret.nivel_cambio)

C6_IncrementsByOne ==
    \A u \in Usuarios :
        (hist'.calls # hist.calls /\ ret'.usuario_id = u) =>
            /\ ret'.op = "update_trust_level"
            /\ usuarios'[u].total_interacciones = usuarios[u].total_interacciones + 1
            /\ ret'.total_interacciones = usuarios[u].total_interacciones + 1

\* C6: in a run of consecutive calls from a new user, update_trust_level raises the
\* counter by one and returns the level before, the level after (that of the new
\* count) and nivel_cambio, true exactly when they differ, which happens only on
\* the calls that bring the counter to 11, 31, 61 and 101.
C6_UpdateTrustLevelResult == []C6_ReturnedLevels /\ [][C6_IncrementsByOne]_vars

\* The call that takes the counter from 10 to 11 has returned a level change 1 -> 2
C6_Witness ==
    /\ ret.op = "update_trust_level" /\ ~ret.error
    /\ ret.total_interacciones = 11
    /\ ret.nivel_anterior = 1 /\ ret.nivel_confianza = 2 /\ ret.nivel_cambio
    /\ usuarios[1].total_interacciones = 11

TrustInfoStep(u) ==
    /\ ret' # ret
    /\ ret'.op = "get_user_trust_info" /\ ret'.usuario_id = u /\ ret'.found

TrustUpdateStep(u) ==
    /\ hist'.calls = hist.calls + 1
    /\ ret'.op = "update_trust_level" /\ ret'.usuario_id = u

C9_ThroughTheCache ==
    \A u \in Usuarios :
        /\ TrustInfoStep(u) =>
              /\ trust_level_cache'[u].cached
              /\ stats'.trust_level.hits + stats'.trust_level.misses =
                     stats.trust_level.hits + stats.trust_level.misses + 1
        /\ (TrustUpdateStep(u) /\ trust_level_cache[u].cached) =>
              /\ ~trust_level_cache'[u].cached
              /\ stats'.trust_level.invalidations >= stats.trust_level.invalidations + 1

\* C9: get_user_trust_info for an existing user goes through the trust-level
\* cache, counted as a hit or a miss and leaving the user's entry resident, and
\* update_trust_level on a user whose entry is resident removes the entry and
\* raises the trust_level invalidation counter.
C9_TrustInfoCached == [][C9_ThroughTheCache]_vars

----------------------------------------------------------------------------
(* SpecTrust: update_trust_level in several sessions at once.  A session     *)
(* first loads the Usuario row (db.query(...).first(), or an earlier query   *)
(* of the same request that left the row in the session) and later           *)
(* increments the loaded value and commits.                                  *)

InFlight == Cardinality({s \in Sessions : pc[s] # "idle"})

\* db.query(Usuario).filter(Usuario.id == usuario_id).first()
SessionLoad(s, u) ==
    /\ pc[s] = "idle"
    /\ hist.calls + InFlight < MaxCalls
    /\ IF usuarios[u].exists
       THEN /\ pc' = [pc EXCEPT ![s] = "loaded"]
            /\ loc' = [loc EXCEPT ![s] = [usuario_id |-> u, row |-> usuarios[u]]]
            /\ UNCHANGED ret
       ELSE /\ ret' = TrustUpdateError(u)
            /\ UNCHANGED <<pc, loc>>
    /\ UNCHANGED <<usuarios, habitos, correlaciones, cacheVars, hist, fnVars>>

\* usuario.total_interacciones += 1; usuario.nivel_confianza = ...; db.commit(); return
SessionCommit(s) ==
    /\ pc[s] = "loaded"
    /\ LET u == loc[s].usuario_id
           loaded == loc[s].row
       IN  /\ usuarios' = [usuarios EXCEPT
                  ![u] = FlushUsuario(@, loaded, TrustUpdatedRow(loaded))]
           /\ ret' = TrustUpdateResult(u, loaded)
    /\ pc' = [pc EXCEPT ![s] = "idle"]
    /\ loc' = [loc EXCEPT ![s] = NoRow]
    /\ hist' = [hist EXCEPT !.calls = @ + 1]
    /\ UNCHANGED <<habitos, correlaciones, cacheVars, fnVars>>

NextTrust ==
    \/ \E s \in Sessions, u \in Usuarios : SessionLoad(s, u)
    \/ \E s \in Sessions : SessionCommit(s)

SpecTrust == InitOneUsuario /\ [][NextTrust]_vars

\* C3: when N update_trust_level calls for one user have all completed, whatever
\* the interleaving of their sessions, total_interacciones is N above its start.
C3_NoLostIncrement ==
    (\A s \in Sessions : pc[s] = "idle") => usuarios[1].total_interacciones = hist.calls

\* C5: the stored nivel_confianza is always the level of the stored counter.
C5_LevelMatchesCounter ==
    \A u \in Usuarios :
        usuarios[u].exists =>
            usuarios[u].nivel_confianza = calculate_trust_level(usuarios[u].total_interacciones)

----------------------------------------------------------------------------
(* SpecHabitos: the habit CRUD functions and the active-habits cache, one   *)
(* caller running whole operations one after another; the first NumDuenos   *)
(* users exist, the database has no habit and the caches are empty          *)

InitHabitos ==
    /\ usuarios = [u \in Usuarios |-> IF u <= NumDuenos THEN NewUsuario("Usuario") ELSE NoRow]
    /\ habitos = NoHabitos
    /\ correlaciones = NoCorrelaciones
    /\ InitCaches
    /\ InitNoRequests
    /\ InitNoFn
    /\ ret = NoRet
    /\ hist = IdleHist

Bounded(w) ==
    /\ \A ns \in Namespaces :
          /\ w.stats[ns].hits <= MaxStat
          /\ w.stats[ns].misses <= MaxStat
          /\ w.stats[ns].invalidations <= MaxStat
    /\ \A u \in Usuarios :
          w.usuarios[u].exists => w.usuarios[u].total_interacciones <= MaxInteracciones

Existentes == {u \in Usuarios : usuarios[u].exists}

GetHabitos ==
    \E u \in Existentes, activo \in ActivoFilters :
        LET r == get_habitos_by_usuario(World, u, activo)
        IN  /\ Bounded(r.w)
            /\ Install(r.w)
            /\ ret' = [op |-> "get_habitos_by_usuario", usuario_id |-> u,
                       activo |-> activo, result |-> r.result, hit |-> r.hit]
            /\ hist' = IF activo = "True"
                       THEN [hist EXCEPT !.escrito[u] = FALSE] ELSE hist
            /\ UNCHANGED <<reqVars, fnVars>>

CreateHabito ==
    \E u \in Existentes, nombre \in HabitNames, activo \in BOOLEAN :
        /\ HasFreeId(World)
        /\ LET r == create_habito(World, u, nombre, activo)
           IN  /\ Bounded(r.w)
               /\ Install(r.w)
               /\ ret' = [op |-> "create_habito", usuario_id |-> u, result |-> r.result]
               /\ hist' = [hist EXCEPT !.escrito[u] = TRUE]
               /\ UNCHANGED <<reqVars, fnVars>>

UpdateHabito ==
    \E h \in HabitoIds, update_data \in HabitoUpdates :
        LET r == update_habito(World, h, update_data)
        IN  /\ Bounded(r.w)
            /\ Install(r.w)
            /\ ret' = [op |-> "update_habito", habito_id |-> h,
                       result |-> r.result, found |-> r.found]
            /\ hist' = IF r.found
                       THEN [hist EXCEPT !.escrito[habitos[h].usuario_id] = TRUE]
                       ELSE hist
            /\ UNCHANGED <<reqVars, fnVars>>

DeleteHabito ==
    \E h \in HabitoIds :
        LET r == delete_habito(World, h)
        IN  /\ Bounded(r.w)
            /\ Install(r.w)
            /\ ret' = [op |-> "delete_habito", habito_id |-> h,
                       result |-> r.result, found |-> r.found]
            /\ hist' = IF r.found
                       THEN [hist EXCEPT !.escrito[habitos[h].usuario_id] = TRUE]
                       ELSE hist
            /\ UNCHANGED <<reqVars, fnVars>>

InvalidateHabitos ==
    \E u \in Existentes :
        /\ Bounded(invalidate_habitos_cache(World, u))
        /\ Install(invalidate_habitos_cache(World, u))
        /\ ret' = [op |-> "invalidate_habitos_cache", usuario_id |-> u]
        /\ UNCHANGED <<hist, reqVars, fnVars>>

\* Time passes and the TTL of an entry elapses
ExpireHabitos ==
    \E u \in Usuarios :
        /\ habitos_activos_cache[u].cached
        /\ Install(ExpireKey(World, "habitos_activos", u))
        /\ ret' = NoRet
        /\ UNCHANGED <<hist, reqVars, fnVars>>

NextHabitos ==
    \/ GetHabitos
    \/ CreateHabito
    \/ UpdateHabito
    \/ DeleteHabito
    \/ InvalidateHabitos
    \/ ExpireHabitos

SpecHabitos == InitHabitos /\ [][NextHabitos]_vars

HabitWrites == {"create_habito", "update_habito", "delete_habito"}

\* The step is a committed habit write whose habit belongs to u
HabitWriteStep(u) ==
    /\ ret'.op \in HabitWrites
    /\ IF ret'.op = "create_habito"
       THEN ret'.usuario_id = u
       ELSE ret'.found /\ ret'.result.usuario_id = u

\* The step is get_habitos_by_usuario(u, activo=True)
ActiveReadStep(u) ==
    /\ ret'.op = "get_habitos_by_usuario"
    /\ ret'.usuario_id = u
    /\ ret'.activo = "True"

HabitosEntryCurrent ==
    \A u \in Usuarios :
        habitos_activos_cache[u].cached =>
            habitos_activos_cache[u].value = QueryHabitos(World, u, "True")

C8_WriteInvalidates ==
    \A u \in Usuarios :
        HabitWriteStep(u) =>
            /\ ~habitos_activos_cache'[u].cached
            /\ hist'.escrito[u]
            /\ habitos_activos_cache[u].cached =>
                  stats'.habitos_activos.invalidations =
                      stats.habitos_activos.invalidations + 1
            /\ (ret'.op = "create_habito" /\ ret'.result.activo) =>
                  /\ ret'.result \notin QueryHabitos(World, u, "True")
                  /\ QueryHabitos(World, u, "True")' =
                         QueryHabitos(World, u, "True") \cup {ret'.result}

C8_NextReadMisses ==
    \A u \in Usuarios :
        (ActiveReadStep(u) /\ hist.escrito[u]) =>
            /\ ~ret'.hit
            /\ stats'.habitos_activos.misses = stats.habitos_activos.misses + 1
            /\ ret'.result = QueryHabitos(World, u, "True")'

\* C8: in a run of whole operations, a committed create_habito, update_habito or
\* delete_habito leaves the owner's active-habits entry absent, raising the
\* habitos_activos invalidation counter by one when the entry was cached; the
\* owner's next get_habitos_by_usuario(u, activo=True) is a miss (miss counter
\* plus one) that returns the active habits now in the database, which after a
\* create of an active habit are the ones from before plus the created one; a
\* resident entry always equals the active habits in the database.
C8_HabitWritesInvalidate ==
    /\ []HabitosEntryCurrent
    /\ [][C8_WriteInvalidates /\ C8_NextReadMisses]_vars

\* An active read has missed and returned one habit, after a create invalidated
\* the entry that a first read had stored
C8_Witness ==
    /\ ret.op = "get_habitos_by_usuario" /\ ret.activo = "True" /\ ~ret.hit
    /\ Cardinality(ret.result) = 1
    /\ stats.habitos_activos.misses = 2
    /\ stats.habitos_activos.hits = 0
    /\ stats.habitos_activos.invalidations = 1

----------------------------------------------------------------------------
(* The request handlers.  Each request has its own Session (get_db), closed *)
(* when the request ends.  get_usuario caches the Usuario instance itself:  *)
(* a commit in the request that loaded it expires the instance              *)
(* (sessionmaker's default expire_on_commit), and once the Session is       *)
(* closed an expired instance can no longer load its attributes.            *)

Expirado == [exists |-> TRUE, expired |-> TRUE]
IsExpired(v) == "expired" \in DOMAIN v

\* db.close() of a request that stored the instance it loaded for u: the cached
\* instance keeps the row of its last load, or nothing after a later commit
CloseSession(w, u, stored, expired) ==
    IF stored /\ w.usuario_cache[u].cached
    THEN [w EXCEPT !.usuario_cache[u] =
             Entry(IF expired THEN Expirado ELSE w.usuarios[u])]
    ELSE w

\* habit mentions extracted from a message; "None" when there is none
Menciones == {"correr", "corro hoy"}
MentionInputs == {"None"} \cup Menciones

extract_habit_name_from_mention(mention) ==
    CASE mention = "corro hoy" -> "correr"
      [] OTHER -> mention

\* str.lower() and str.title() on the habit names in use
Lower(nombre) == IF nombre = "Correr" THEN "correr" ELSE nombre
Title(nombre) ==
    CASE nombre = "correr" -> "Correr"
      [] OTHER -> nombre

HabitExists(w, u, nombre) ==
    \E h \in QueryHabitos(w, u, "None") : Lower(h.nombre_habito) = Lower(nombre)

\* chat_with_loki, step 4: look the habit up among all the user's habits, create
\* it when missing, and record it
RegisterMention(w, u, mention) ==
    IF mention = "None" \/ HabitExists(w, u, mention)
    THEN w
    ELSE create_habito(w, u, mention, TRUE).w

create_or_update_habits_from_mentions(w, u, mention) ==
    IF mention = "None" \/ HabitExists(w, u, extract_habit_name_from_mention(mention))
    THEN w
    ELSE create_habito(w, u, Title(extract_habit_name_from_mention(mention)), TRUE).w

\* Whether handling the mention needs a habit id that the model does not have
NeedsId(w, u, nombre) ==
    nombre # "None" /\ ~HabitExists(w, u, nombre) /\ ~HasFreeId(w)

chat_with_loki(w, u, mention) ==
    LET r == get_usuario(w, u)
    IN  IF ~r.result.exists
        THEN [w |-> r.w, status |-> 404]
        ELSE IF IsExpired(r.result)
        THEN [w |-> r.w, status |-> 500]
        ELSE [w |-> CloseSession(
                        RegisterMention(update_trust_level(r.w, u).w, u, mention),
                        u, ~r.hit, TRUE),
              status |-> 200]

StartsWithUsuario(nombre) == nombre \in {"Usuario de WhatsApp", "Usuario 0001"}
ProfileNames == {"None", "Ana"}
DetectedNames == {"None", "Luz"}

SetNombre(w, u, nombre) == [w EXCEPT !.usuarios[u].nombre = nombre]

\* receive_webhook: the user is looked up by telephone, never through the cache
receive_webhook(w, u, profile_name, nombre_detectado, mention) ==
    LET w1 == IF ~w.usuarios[u].exists
              THEN create_usuario(w, u, IF profile_name # "None" THEN profile_name
                                        ELSE "Usuario de WhatsApp")
              ELSE IF /\ profile_name # "None"
                      /\ w.usuarios[u].nombre # profile_name
                      /\ StartsWithUsuario(w.usuarios[u].nombre)
                   THEN SetNombre(w, u, profile_name)
                   ELSE w
        w2 == update_trust_level(w1, u).w
        w3 == IF nombre_detectado # "None" THEN SetNombre(w2, u, nombre_detectado) ELSE w2
    IN  [w |-> create_or_update_habits_from_mentions(w3, u, mention),
         status |-> 200]

receive_twilio_webhook(w, u) ==
    [w |-> IF w.usuarios[u].exists THEN w ELSE create_usuario(w, u, "Usuario 0001"),
     status |-> 200]

\* db.query(Habito).filter(Habito.usuario_id == usuario_id).delete()
DeleteHabitosOf(w, u) ==
    [w EXCEPT !.habitos =
        [h \in HabitoIds |-> IF @[h].exists /\ @[h].usuario_id = u THEN NoRow ELSE @[h]]]

ResetTypes == {"suave", "completo"}

reset_conversation(w, u, tipo_reset) ==
    LET r == get_usuario(w, u)
    IN  IF ~r.result.exists
        THEN [w |-> r.w, status |-> 404]
        ELSE IF IsExpired(r.result)
        THEN [w |-> r.w, status |-> 500]
        ELSE [w |-> CloseSession(
                        IF tipo_reset = "completo" THEN DeleteHabitosOf(r.w, u) ELSE r.w,
                        u, ~r.hit, FALSE),
              status |-> 200]

read_usuario(w, u) ==
    LET r == get_usuario(w, u)
    IN  [w |-> r.w,
         status |-> IF ~r.result.exists THEN 404
                    ELSE IF IsExpired(r.result) THEN 500 ELSE 200]

read_habitos(w, u, activo) ==
    LET r == get_usuario(w, u)
    IN  IF ~r.result.exists
        THEN [w |-> r.w, status |-> 404]
        ELSE [w |-> get_habitos_by_usuario(r.w, u, activo).w, status |-> 200]

----------------------------------------------------------------------------
(* SpecIngest: the message handlers, the reset and two read routes, one     *)
(* request at a time, from an empty database and empty caches.  Telephone   *)
(* number u belongs to the user with id u.                                  *)

InitIngest ==
    /\ usuarios = [u \in Usuarios |-> NoRow]
    /\ habitos = NoHabitos
    /\ correlaciones = NoCorrelaciones
    /\ InitCaches
    /\ InitNoRequests
    /\ InitNoFn
    /\ ret = NoRet
    /\ hist = IdleHist

Telefonos == 1..NumDuenos

\* The request returned `status`; a handled message is counted in hist.mensajes
Respond(op, u, r, is_message) ==
    /\ Bounded(r.w)
    /\ Install(r.w)
    /\ ret' = [op |-> op, usuario_id |-> u, status |-> r.status]
    /\ hist' = IF is_message /\ r.status = 200
               THEN [hist EXCEPT !.mensajes[u] = @ + 1] ELSE hist
    /\ UNCHANGED <<reqVars, fnVars>>

ChatMessage ==
    \E u \in Telefonos, mention \in MentionInputs :
        /\ hist.mensajes[u] < MaxMensajes
        /\ ~NeedsId(World, u, mention)
        /\ Respond("chat_with_loki", u, chat_with_loki(World, u, mention), TRUE)

WhatsappMessage ==
    \E u \in Telefonos, profile_name \in ProfileNames,
       nombre_detectado \in DetectedNames, mention \in MentionInputs :
        /\ hist.mensajes[u] < MaxMensajes
        /\ ~NeedsId(World, u, extract_habit_name_from_mention(mention))
        /\ Respond("receive_webhook", u,
                   receive_webhook(World, u, profile_name, nombre_detectado, mention),
                   TRUE)

TwilioMessage ==
    \E u \in Telefonos :
        /\ hist.mensajes[u] < MaxMensajes
        /\ Respond("receive_twilio_webhook", u, receive_twilio_webhook(World, u), TRUE)

ResetConversation ==
    \E u \in Telefonos, tipo_reset \in ResetTypes :
        Respond("reset_conversation", u, reset_conversation(World, u, tipo_reset), FALSE)

ReadUsuario ==
    \E u \in Telefonos : Respond("read_usuario", u, read_usuario(World, u), FALSE)

ReadHabitos ==
    \E u \in Telefonos, activo \in ActivoFilters :
        Respond("read_habitos", u, read_habitos(World, u, activo), FALSE)

\* Time passes and the TTL of an entry elapses
ExpireEntry ==
    \E ns \in Namespaces, u \in Usuarios :
        /\ CacheOf(World, ns)[u].cached
        /\ Install(ExpireKey(World, ns, u))
        /\ ret' = NoRet
        /\ UNCHANGED <<hist, reqVars, fnVars>>

NextIngest ==
    \/ ChatMessage
    \/ WhatsappMessage
    \/ TwilioMessage
    \/ ResetConversation
    \/ ReadUsuario
    \/ ReadHabitos
    \/ ExpireEntry

SpecIngest == InitIngest /\ [][NextIngest]_vars

Total(row) == IF row.exists THEN row.total_interacciones ELSE 0

C7_CountsTheMessage ==
    \A u \in Usuarios :
        IF hist'.mensajes[u] = hist.mensajes[u] + 1
        THEN Total(usuarios'[u]) = Total(usuarios[u]) + 1
        ELSE Total(usuarios'[u]) = Total(usuarios[u])

\* C7: every message handled by the chat endpoint, the WhatsApp webhook or the
\* Twilio webhook raises that user's total_interacciones by exactly one, and no
\* other request changes it.
C7_CounterOncePerMessage == [][C7_CountsTheMessage]_vars

C10_UsuarioEntryCurrent ==
    \A u \in Usuarios :
        (usuario_cache[u].cached /\ ~IsExpired(usuario_cache[u].value)) =>
            usuario_cache[u].value = usuarios[u]

\* C10: between requests, every resident cache entry that can be read equals what
\* its underlying query returns now: a cached Usuario equals the user's row and
\* a cached active-habits list equals the user's active habits.
C10_NoStaleEntry == C10_UsuarioEntryCurrent /\ HabitosEntryCurrent

----------------------------------------------------------------------------
(* SpecCache: threads running the decorated reads, the invalidation          *)
(* functions and create_habito against one cache namespace, step by step.    *)
(* The decorators and the invalidation functions take no lock: a step is one *)
(* access to the cache or to the database, and the counter update next to a  *)
(* cache access is part of its step.  arg holds the namespace of the         *)
(* behaviour; all users exist.                                               *)

Threads == 1..NumThreads

InitCache ==
    /\ usuarios = [u \in Usuarios |-> NewUsuario("Usuario")]
    /\ habitos = NoHabitos
    /\ correlaciones = NoCorrelaciones
    /\ InitCaches
    /\ pc = [t \in Threads |-> "idle"]
    /\ loc = [t \in Threads |-> NoRow]
    /\ arg \in Namespaces
    /\ out = <<>>
    /\ ret = NoRet
    /\ hist = [calls |-> 0, done |-> {}, fresh |-> [t \in Threads |-> 0]]

\* What the wrapped function of namespace ns returns for u on the state w
Underlying(w, ns, u) ==
    CASE ns = "usuario" -> w.usuarios[u]
      [] ns = "habitos_activos" -> QueryHabitos(w, u, "True")
      [] ns = "trust_level" -> get_user_trust_info(w, u).result

\* Another thread is inside an operation on the key of u
OthersOn(t, u) ==
    \E o \in Threads \ {t} : pc[o] # "idle" /\ loc[o].usuario_id = u

\* Thread t starts an operation on u: a key that another thread had just
\* invalidated is no longer untouched, and t's own mark is used up
Touch(t, u) ==
    [hist EXCEPT !.calls = @ + 1,
                 !.fresh = [o \in Threads |-> IF o = t \/ @[o] = u THEN 0 ELSE @[o]]]

\* The habit ids of `must` that the returned value does not hold
Missing(must, value) == {h \in must : \A r \in value : r.id # h}

\* wrapper: `if cache_key in cache: stats.hit() ... else: stats.miss()`
ReadBegin(t, u) ==
    /\ pc[t] = "idle"
    /\ hist.calls < MaxOps
    /\ Install(WrapperLookup(World, arg, u))
    /\ pc' = [pc EXCEPT ![t] = IF CacheOf(World, arg)[u].cached THEN "fetch" ELSE "compute"]
    /\ loc' = [loc EXCEPT ![t] =
                  [usuario_id |-> u, fresh |-> hist.fresh[t] = u,
                   must |-> {h \in hist.done : habitos[h].usuario_id = u}]]
    /\ hist' = Touch(t, u)
    /\ UNCHANGED <<ret, fnVars>>

\* wrapper: `return cache[cache_key]`, a KeyError when the entry is gone
ReadFetch(t) ==
    /\ pc[t] = "fetch"
    /\ ret' = IF CacheOf(World, arg)[loc[t].usuario_id].cached
              THEN [op |-> "read", error |-> FALSE, hit |-> TRUE, fresh |-> loc[t].fresh,
                    missing |-> Missing(loc[t].must,
                                        CacheOf(World, arg)[loc[t].usuario_id].value)]
              ELSE [op |-> "read", error |-> TRUE, hit |-> TRUE, fresh |-> loc[t].fresh]
    /\ pc' = [pc EXCEPT ![t] = "idle"]
    /\ loc' = [loc EXCEPT ![t] = NoRow]
    /\ UNCHANGED <<dbVars, cacheVars, hist, fnVars>>

\* wrapper: `result = func(db, usuario_id, ...)`
ReadCompute(t) ==
    /\ pc[t] = "compute"
    /\ pc' = [pc EXCEPT ![t] = "store"]
    /\ loc' = [loc EXCEPT ![t] =
                  [usuario_id |-> @.usuario_id, fresh |-> @.fresh, must |-> @.must,
                   value |-> Underlying(World, arg, @.usuario_id)]]
    /\ UNCHANGED <<dbVars, cacheVars, ret, hist, fnVars>>

\* wrapper: `if result is not None: cache[cache_key] = result` and `return result`
ReadStore(t) ==
    /\ pc[t] = "store"
    /\ Install(WrapperStore(World, arg, loc[t].usuario_id, loc[t].value, FALSE))
    /\ ret' = [op |-> "read", error |-> FALSE, hit |-> FALSE, fresh |-> loc[t].fresh,
               missing |-> Missing(loc[t].must, loc[t].value)]
    /\ pc' = [pc EXCEPT ![t] = "idle"]
    /\ loc' = [loc EXCEPT ![t] = NoRow]
    /\ UNCHANGED <<hist, fnVars>>

\* create_habito: db.add, db.commit, db.refresh; invalidate_habitos_cache follows
WriteCommit(t, u) ==
    /\ pc[t] = "idle"
    /\ hist.calls < MaxOps
    /\ arg = "habitos_activos"
    /\ HasFreeId(World)
    /\ habitos' = InsertHabito(World, u, "correr", TRUE).habitos
    /\ pc' = [pc EXCEPT ![t] = "check"]
    /\ loc' = [loc EXCEPT ![t] = [usuario_id |-> u, habito_id |-> NextHabitoId(World)]]
    /\ hist' = Touch(t, u)
    /\ UNCHANGED <<usuarios, correlaciones, cacheVars, ret, fnVars>>

\* The invalidation returns to thread t: a created habit is now a completed
\* write, and the key is marked when no other thread is working on it
Returned(h, t, u, habito_id) ==
    [h EXCEPT !.done = IF habito_id = 0 THEN @ ELSE @ \cup {habito_id},
              !.fresh[t] = IF OthersOn(t, u) THEN 0 ELSE u]

\* invalidate_*_cache: `if cache_key in cache:`
InvalidateCheck(t, u, habito_id, h) ==
    /\ IF CacheOf(World, arg)[u].cached
       THEN /\ pc' = [pc EXCEPT ![t] = "del"]
            /\ loc' = [loc EXCEPT ![t] = [usuario_id |-> u, habito_id |-> habito_id]]
            /\ hist' = h
            /\ UNCHANGED ret
       ELSE /\ pc' = [pc EXCEPT ![t] = "idle"]
            /\ loc' = [loc EXCEPT ![t] = NoRow]
            /\ ret' = [op |-> "invalidate", error |-> FALSE]
            /\ hist' = Returned(h, t, u, habito_id)
    /\ UNCHANGED <<dbVars, cacheVars, fnVars>>

\* A direct call of the invalidation function of the namespace
InvalidateBegin(t, u) ==
    /\ pc[t] = "idle"
    /\ hist.calls < MaxOps
    /\ InvalidateCheck(t, u, 0, Touch(t, u))

\* create_habito calls invalidate_habitos_cache(usuario_id)
WriteInvalidate(t) ==
    /\ pc[t] = "check"
    /\ InvalidateCheck(t, loc[t].usuario_id, loc[t].habito_id, hist)

\* invalidate_*_cache: `del cache[cache_key]; stats.invalidate()`, a KeyError when
\* the entry is gone
InvalidateDelete(t) ==
    /\ pc[t] = "del"
    /\ pc' = [pc EXCEPT ![t] = "idle"]
    /\ loc' = [loc EXCEPT ![t] = NoRow]
    /\ IF CacheOf(World, arg)[loc[t].usuario_id].cached
       THEN /\ Install(InvalidateFn(World, arg, loc[t].usuario_id))
            /\ ret' = [op |-> "invalidate", error |-> FALSE]
            /\ hist' = Returned(hist, t, loc[t].usuario_id, loc[t].habito_id)
       ELSE /\ ret' = [op |-> "invalidate", error |-> TRUE]
            /\ UNCHANGED <<dbVars, cacheVars, hist>>
    /\ UNCHANGED fnVars

\* The TTL of an entry elapses
Expire(u) ==
    /\ CacheOf(World, arg)[u].cached
    /\ hist.calls < MaxOps
    /\ Install(ExpireKey(World, arg, u))
    /\ hist' = [hist EXCEPT !.calls = @ + 1]
    /\ UNCHANGED <<ret, reqVars, fnVars>>

NextCache ==
    \/ \E t \in Threads, u \in Usuarios : ReadBegin(t, u)
    \/ \E t \in Threads : ReadFetch(t)
    \/ \E t \in Threads : ReadCompute(t)
    \/ \E t \in Threads : ReadStore(t)
    \/ \E t \in Threads, u \in Usuarios : WriteCommit(t, u)
    \/ \E t \in Threads, u \in Usuarios : InvalidateBegin(t, u)
    \/ \E t \in Threads : WriteInvalidate(t)
    \/ \E t \in Threads : InvalidateDelete(t)
    \/ \E u \in Usuarios : Expire(u)

SpecCache == InitCache /\ [][NextCache]_vars

\* C1: a cached read of a user's active habits that starts after a create_habito
\* for that user has returned (commit and invalidation done) returns a list that
\* contains the created habit, in every interleaving with other threads' reads.
C1_ReadsSeeCompletedWrites ==
    (ret.op = "read" /\ ~ret.error) =>
        ret.missing = {}

\* Thread t starts a cached read of the key it has just invalidated
FreshReadStep(t, u) ==
    /\ pc[t] = "idle" /\ pc'[t] \in {"fetch", "compute"}
    /\ loc'[t].usuario_id = u
    /\ hist.fresh[t] = u

C2_MissAfterInvalidate ==
    \A t \in Threads, u \in Usuarios :
        FreshReadStep(t, u) =>
            /\ pc'[t] = "compute"
            /\ stats'[arg].misses = stats[arg].misses + 1
            /\ stats'[arg].hits = stats[arg].hits

C2_ReturnsOwnResult ==
    (ret.op = "read" /\ ret.fresh) =>
        /\ ~ret.error /\ ~ret.hit
        /\ ret.missing = {}

C11_ReadNeverFails == (ret.op = "read") => ~ret.error

----------------------------------------------------------------------------
(* SpecReads: one caller issuing cached reads, invalidations and expiries on  *)
(* one namespace (arg) whose TTLCache holds at most Maxsize entries.  The     *)
(* users are 1..NumClaves, the last of them has no row; hist.links is the     *)
(* order in which the resident keys were stored (TTLCache keeps it to expire  *)
(* and evict the oldest first), hist.tick flips at every operation.           *)

Claves == 1..NumClaves

\* Cache.popitem of a TTLCache: the entry stored longest ago goes
popitem(c, links) ==
    [cache |-> [c EXCEPT ![Head(links)] = Absent], links |-> Tail(links)]

\* Cache.__setitem__: `while currsize + size > maxsize: self.popitem()`
RECURSIVE MakeRoom(_, _)
MakeRoom(c, links) ==
    IF Len(links) < Maxsize THEN [cache |-> c, links |-> links]
    ELSE MakeRoom(popitem(c, links).cache, popitem(c, links).links)

\* A plain dictionary in place of the TTLCache: no maxsize
DictSetItem(c, links, key, value) ==
    [cache |-> [c EXCEPT ![key] = Entry(value)],
     links |-> Append(SelectSeq(links, LAMBDA k : k # key), key)]

\* `cache[cache_key] = result` on TTLCache(maxsize=..., ttl=...)
TTLCacheSetItem(c, links, key, value) ==
    LET room == IF c[key].cached
                THEN [cache |-> c, links |-> SelectSeq(links, LAMBDA k : k # key)]
                ELSE MakeRoom(c, links)
    IN  [cache |-> [room.cache EXCEPT ![key] = Entry(value)],
         links |-> Append(room.links, key)]

\* The keys of links that are still resident in namespace ns of w
Prune(w, ns, links) == SelectSeq(links, LAMBDA k : CacheOf(w, ns)[k].cached)

\* wrapper of cached_usuario / cached_habitos_activos, run without interruption
CachedCall(w, links, ns, u, result, is_none) ==
    IF CacheOf(w, ns)[u].cached
    THEN [w |-> WrapperLookup(w, ns, u), links |-> links,
          result |-> CacheOf(w, ns)[u].value, hit |-> TRUE, called |-> FALSE]
    ELSE LET set == TTLCacheSetItem(CacheOf(w, ns), links, u, result)
         IN  [w |-> IF is_none THEN WrapperLookup(w, ns, u)
                    ELSE WithCache(WrapperLookup(w, ns, u), ns, set.cache),
              links |-> IF is_none THEN links ELSE set.links,
              result |-> result, hit |-> FALSE, called |-> TRUE]

\* The read of namespace ns as the program performs it: get_usuario and
\* get_habitos_by_usuario(activo=True) are decorated, get_user_trust_info is not
CachedRead(w, links, ns, u) ==
    IF ns = "trust_level"
    THEN [w |-> w, links |-> links, result |-> get_user_trust_info(w, u).result,
          hit |-> FALSE, called |-> TRUE]
    ELSE CachedCall(w, links, ns, u, Underlying(w, ns, u),
                    ns = "usuario" /\ ~w.usuarios[u].exists)

InitReads ==
    /\ usuarios = [u \in Claves |-> IF u < NumClaves THEN NewUsuario("Usuario") ELSE NoRow]
    /\ habitos = NoHabitos
    /\ correlaciones = NoCorrelaciones
    /\ usuario_cache = [u \in Claves |-> Absent]
    /\ habitos_activos_cache = [u \in Claves |-> Absent]
    /\ trust_level_cache = [u \in Claves |-> Absent]
    /\ stats = EmptyStats
    /\ InitNoRequests
    /\ arg \in Namespaces
    /\ out = <<>>
    /\ ret = NoRet
    /\ hist = [links |-> [ns \in Namespaces |-> <<>>], tick |-> FALSE]

Tick(links) == [links |-> links, tick |-> ~hist.tick]

ReadKey(u) ==
    LET r == CachedRead(World, hist.links[arg], arg, u)
    IN  /\ stats[arg].hits + stats[arg].misses <= MaxStat
        /\ Install(r.w)
        /\ hist' = Tick([hist.links EXCEPT ![arg] = r.links])
        /\ ret' = [op |-> "read", usuario_id |-> u, result |-> r.result,
                   is_none |-> (arg # "habitos_activos" /\ ~usuarios[u].exists),
                   called |-> r.called,
                   evicted |-> {k \in Claves : CacheOf(World, arg)[k].cached
                                                /\ ~CacheOf(r.w, arg)[k].cached}]
        /\ UNCHANGED <<reqVars, fnVars>>

Invalidated(w, all, u) ==
    /\ Install(w)
    /\ hist' = Tick([ns \in Namespaces |-> Prune(w, ns, hist.links[ns])])
    /\ ret' = [op |-> "invalidate", usuario_id |-> u, all |-> all]
    /\ UNCHANGED <<reqVars, fnVars>>

InvalidateOne(u) ==
    /\ stats[arg].invalidations < MaxStat
    /\ Invalidated(InvalidateFn(World, arg, u), FALSE, u)

InvalidateAll(u) ==
    /\ stats[arg].invalidations < MaxStat
    /\ Invalidated(invalidate_all_user_caches(World, u), TRUE, u)

\* Time passes: the entry stored longest ago reaches its TTL
ExpireOldest ==
    /\ hist.links[arg] # <<>>
    /\ Install(ExpireKey(World, arg, Head(hist.links[arg])))
    /\ hist' = Tick([hist.links EXCEPT ![arg] = Tail(@)])
    /\ ret' = NoRet
    /\ UNCHANGED <<reqVars, fnVars>>

NextReads ==
    \/ \E u \in Claves : ReadKey(u)
    \/ \E u \in Claves : InvalidateOne(u)
    \/ \E u \in Claves : InvalidateAll(u)
    \/ ExpireOldest

SpecReads == InitReads /\ [][NextReads]_vars

Resident(ns) == {u \in Claves : CacheOf(World, ns)[u].cached}

\* A read stores a key that was not resident
StoreStep(u) ==
    /\ hist'.tick # hist.tick
    /\ ret'.op = "read" /\ ret'.usuario_id = u
    /\ u \notin Resident(arg) /\ u \in Resident(arg)'

C12_SizeBound ==
    \A ns \in Namespaces :
        /\ Cardinality(Resident(ns)) <= Maxsize
        /\ Len(hist.links[ns]) = Cardinality(Resident(ns))
        /\ \A u \in Resident(ns) : \E i \in 1..Len(hist.links[ns]) : hist.links[ns][i] = u

C12_EvictsOldest ==
    \A u \in Claves :
        (StoreStep(u) /\ Cardinality(Resident(arg)) = Maxsize) =>
            Resident(arg)' = (Resident(arg) \ {Head(hist.links[arg])}) \cup {u}

ReadStepOf(u) ==
    /\ hist'.tick # hist.tick
    /\ ret'.op = "read" /\ ret'.usuario_id = u

C13_ReadCounts ==
    \A u \in Claves :
        ReadStepOf(u) =>
            IF u \in Resident(arg)
            THEN /\ stats'[arg].hits = stats[arg].hits + 1
                 /\ stats'[arg].misses = stats[arg].misses
                 /\ ret'.result = CacheOf(World, arg)[u].value
                 /\ ~ret'.called
            ELSE /\ stats'[arg].misses = stats[arg].misses + 1
                 /\ stats'[arg].hits = stats[arg].hits
                 /\ ret'.called
                 /\ (u \in Resident(arg)') = ~ret'.is_none

\* C13: every cached read (get_usuario, get_habitos_by_usuario with activo=True,
\* the trust info read) of a resident key adds one to the namespace's hit counter
\* and returns the cached value without calling the function; of any other key it
\* adds one to the miss counter, calls the function, and stores the result exactly
\* when it is not None.
C13_HitOrMiss == [][C13_ReadCounts]_vars

\* The same statement restricted to the two decorated reads
DecoratedReadCounts == [][arg # "trust_level" => C13_ReadCounts]_vars

InvalidateStepOf(u, all) ==
    /\ hist'.tick # hist.tick
    /\ ret'.op = "invalidate" /\ ret'.usuario_id = u /\ ret'.all = all

C14_InvalidateCounts ==
    \A u \in Claves :
        /\ InvalidateStepOf(u, FALSE) =>
              /\ u \notin Resident(arg)'
              /\ stats'[arg].invalidations = stats[arg].invalidations + 1
        /\ InvalidateStepOf(u, TRUE) =>
              \A ns \in Namespaces :
                  /\ u \notin Resident(ns)'
                  /\ stats'[ns].invalidations = stats[ns].invalidations + 1

\* C14: each call of invalidate_usuario_cache, invalidate_habitos_cache or
\* invalidate_trust_level_cache leaves the user's key absent and adds exactly one
\* to the namespace's invalidation counter, whether or not an entry was present;
\* invalidate_all_user_caches does so in all three namespaces.
C14_InvalidationCounter == [][C14_InvalidateCounts]_vars

----------------------------------------------------------------------------
(* app/services/pattern_analysis.py *)

min_data_points == 5                \* PatternAnalysisService.__init__
correlation_threshold == [num |-> 3, den |-> 10]
Cutoff == 1                         \* cutoff_date: day 0 lies before it

Dias    == 0..2
Niveles == {1, 3, 4, 10}

InWindow(d) == d >= Cutoff

RECURSIVE SumOver(_, _)
SumOver(f, S) ==
    IF S = {} THEN 0
    ELSE LET d == CHOOSE x \in S : TRUE IN f[d] + SumOver(f, S \ {d})

\* len([m for m in moods if m.date in S]) and sum(m.nivel ...) for the days S
Muestras(moods, S)    == SumOver([d \in Dias |-> moods[d].n], S)
SumaNiveles(moods, S) == SumOver([d \in Dias |-> moods[d].n * moods[d].nivel], S)

\* mood_states: EstadoAnimo.timestamp >= cutoff_date
MoodDays(moods) == {d \in Dias : InWindow(d) /\ moods[d].n > 0}

\* registros: RegistroHabito.timestamp >= cutoff_date, completado
RegistroDays(reg) == IF reg.por_dia = 0 THEN {} ELSE {d \in reg.dias : InWindow(d)}
NumRegistros(reg) == reg.por_dia * Cardinality(RegistroDays(reg))

Abs(x) == IF x < 0 THEN -x ELSE x

\* round(a / b, ndigits) as an integer count of the last digit: nearest, ties to even
RoundDiv(a, b) ==
    LET q == a \div b
        r == a - q * b
    IN  IF 2 * r < b THEN q
        ELSE IF 2 * r > b THEN q + 1
        ELSE IF q % 2 = 0 THEN q ELSE q + 1

\* impact without the division by 10.0
ImpactNotNormalized(sum_with, n_with, sum_without, n_without) ==
    [num |-> sum_with * n_without - sum_without * n_with, den |-> n_with * n_without]

\* impact = (avg_with - avg_without) / 10.0, as a fraction
Impact(sum_with, n_with, sum_without, n_without) ==
    [num |-> sum_with * n_without - sum_without * n_with,
     den |-> 10 * n_with * n_without]

\* abs(impact) >= self.correlation_threshold
Significant(impact) ==
    Abs(impact.num) * correlation_threshold.den >= correlation_threshold.num * impact.den

\* confidence = min(1.0, n / 20.0), rounded to 2 digits, in hundredths
Confidence(n) == IF n >= 20 THEN 100 ELSE RoundDiv(100 * n, 20)

\* The dictionary appended for habit h; found = FALSE when the habit is skipped
CorrelationOf(hab, moods, registros, h) ==
    LET dates    == RegistroDays(registros[h])
        with     == MoodDays(moods) \cap dates
        without  == MoodDays(moods) \ dates
        n_with   == Muestras(moods, with)
        n_without == Muestras(moods, without)
        impact   == Impact(SumaNiveles(moods, with), n_with,
                           SumaNiveles(moods, without), n_without)
    IN  IF NumRegistros(registros[h]) < min_data_points THEN [found |-> FALSE]
        ELSE IF n_with = 0 \/ n_without = 0 THEN [found |-> FALSE]
        ELSE IF ~Significant(impact) THEN [found |-> FALSE]
        ELSE [found |-> TRUE, habit |-> hab[h].nombre_habito, habit_id |-> h,
              impact |-> RoundDiv(1000 * impact.num, impact.den),
              confidence |-> Confidence(n_with + n_without),
              occurrences |-> n_with]

\* db.query(Habito).filter(usuario_id == u, activo == True).all(), by id
RECURSIVE ActiveHabitos(_, _)
ActiveHabitos(hab, h) ==
    IF h \notin DOMAIN hab THEN <<>>
    ELSE IF hab[h].exists /\ hab[h].activo
         THEN <<h>> \o ActiveHabitos(hab, h + 1)
         ELSE ActiveHabitos(hab, h + 1)

\* The loop over the habits: one dictionary per habit that is not skipped
RECURSIVE Collect(_, _, _, _)
Collect(hab, moods, registros, ids) ==
    IF ids = <<>> THEN <<>>
    ELSE LET c == CorrelationOf(hab, moods, registros, Head(ids))
         IN  (IF c.found THEN <<[k \in DOMAIN c \ {"found"} |-> c[k]]>> ELSE <<>>)
                 \o Collect(hab, moods, registros, Tail(ids))

\* x placed before the first element whose |impact| is not larger
RECURSIVE InsertByImpact(_, _)
InsertByImpact(x, sorted) ==
    IF sorted = <<>> THEN <<x>>
    ELSE IF Abs(Head(sorted).impact) <= Abs(x.impact) THEN <<x>> \o sorted
    ELSE <<Head(sorted)>> \o InsertByImpact(x, Tail(sorted))

\* correlations.sort(key=lambda x: abs(x['impact']), reverse=True): stable
RECURSIVE SortByImpact(_)
SortByImpact(corrs) ==
    IF corrs = <<>> THEN <<>>
    ELSE InsertByImpact(Head(corrs), SortByImpact(Tail(corrs)))

\* _analyze_habit_mood_correlations up to the sort
Correlations(hab, moods, registros) ==
    SortByImpact(Collect(hab, moods, registros, ActiveHabitos(hab, 1)))

NewCorrelacion(usuario_id, corr, now) ==
    [usuario_id |-> usuario_id, factor |-> corr.habit, impacto_animo |-> corr.impact,
     confianza_estadistica |-> corr.confidence, num_datos |-> corr.occurrences,
     fecha_calculo |-> now]

\* existing = db.query(Correlacion).filter(usuario_id, factor).first(): 0 when none
Existing(rows, usuario_id, factor) ==
    LET found == {i \in 1..Len(rows) :
                      rows[i].usuario_id = usuario_id /\ rows[i].factor = factor}
    IN  IF found = {} THEN 0 ELSE CHOOSE i \in found : \A j \in found : i <= j

\* _save_correlations_to_db before its commit: the rows of the table as the
\* session changed them, followed by the rows it added.  The query of one
\* correlation does not see the rows added for the earlier ones (autoflush is
\* off); times[i] is utcnow() for the i-th correlation.
RECURSIVE Upsert(_, _, _, _, _)
Upsert(rows, added, usuario_id, corrs, times) ==
    IF corrs = <<>> THEN rows \o added
    ELSE LET c == Head(corrs)
             e == Existing(rows, usuario_id, c.habit)
         IN  IF e # 0
             THEN Upsert([rows EXCEPT ![e] = NewCorrelacion(usuario_id, c, Head(times))],
                         added, usuario_id, Tail(corrs), Tail(times))
             ELSE Upsert(rows, Append(added, NewCorrelacion(usuario_id, c, Head(times))),
                         usuario_id, Tail(corrs), Tail(times))

\* All samples counted, whether inside the lookback window or not
DataPointsAnyDay(moods) == SumOver([d \in Dias |-> moods[d].n], Dias)

\* len(mood_states)
DataPoints(moods) == Muestras(moods, MoodDays(moods))

\* The dictionary analyze_user_patterns returns
Report(hab, moods, registros) ==
    IF DataPoints(moods) < min_data_points
    THEN [op |-> "analyze_user_patterns", raised |-> FALSE, has_enough_data |-> FALSE,
          data_points |-> DataPoints(moods), min_required |-> min_data_points]
    ELSE [op |-> "analyze_user_patterns", raised |-> FALSE, has_enough_data |-> TRUE,
          data_points |-> DataPoints(moods),
          correlations |-> Correlations(hab, moods, registros)]

\* The exception of a failed db.commit() leaves analyze_user_patterns
Raised == [op |-> "analyze_user_patterns", raised |-> TRUE]

\* caching.stats: one CacheStats per cache, the caches of the analysis included
StatsKeys == Namespaces \cup {"resumenes", "correlaciones", "dashboard"}
AllStats  == [ns \in StatsKeys |-> [hits |-> 0, misses |-> 0, invalidations |-> 0]]

----------------------------------------------------------------------------
(* SpecPatterns: analyze_user_patterns for user 1, one call at a time, on     *)
(* every combination of the inputs below.  arg holds the rows of              *)
(* estados_animo (for each day, n samples of one nivel) and of                *)
(* registros_habitos (for each habit, por_dia completed records on each of    *)
(* its days); hist.reloj is the clock read by utcnow(), which may advance   *)
(* before every reading.                                                    *)

Cantidades == {0, 1, min_data_points - 1, min_data_points, MaxMuestras}

MoodDayInputs(d) ==
    {m \in [n : Cantidades, nivel : Niveles] :
        /\ m.n = 0 => m.nivel = 1
        /\ ~InWindow(d) => (m.nivel = 10 /\ m.n \in {0, min_data_points})}

RegistroInputs ==
    {r \in [dias : SUBSET Dias, por_dia : {min_data_points - 1, min_data_points}] :
        \/ r.dias = {1}
        \/ r.dias = {0, 1} /\ r.por_dia = min_data_points - 1
        \/ r.dias \in {{2}, {1, 2}} /\ r.por_dia = min_data_points}

HabitoInputs ==
    {[exists |-> TRUE, usuario_id |-> 1, nombre_habito |-> "leer", activo |-> TRUE],
     [exists |-> TRUE, usuario_id |-> 1, nombre_habito |-> "leer", activo |-> FALSE]}

InitPatterns ==
    /\ usuarios = [u \in Usuarios |-> IF u = 1 THEN NewUsuario("Usuario") ELSE NoRow]
    /\ \E h2 \in HabitoInputs :
          habitos = <<[exists |-> TRUE, usuario_id |-> 1, nombre_habito |-> "correr",
                       activo |-> TRUE], h2>>
    /\ correlaciones = NoCorrelaciones
    /\ usuario_cache = EmptyCache
    /\ habitos_activos_cache = EmptyCache
    /\ trust_level_cache = EmptyCache
    /\ stats = AllStats
    /\ InitNoRequests
    /\ \E m1 \in MoodDayInputs(1), m2 \in MoodDayInputs(2), m0 \in MoodDayInputs(0),
          r \in [1..2 -> RegistroInputs] :
          arg = [moods |-> [d \in Dias |-> IF d = 0 THEN m0 ELSE IF d = 1 THEN m1 ELSE m2],
                 registros |-> r]
    /\ out = NoRet
    /\ ret = NoRet
    /\ hist = [reloj |-> 0, fallo |-> FALSE]

\* The values utcnow() returns in n successive calls that start at time t
Clocks(t, n) ==
    {c \in [1..n -> t..(t + n)] :
        /\ n > 0 => c[1] \in {t, t + 1}
        /\ \A i \in 1..(n - 1) : c[i + 1] \in {c[i], c[i] + 1}}

\* analyze_user_patterns(db, 1): with enough data the correlations are written
\* and committed, and a commit that fails raises out of the call
AnalyzeUserPatterns ==
    LET rep == Report(habitos, arg.moods, arg.registros)
    IN  /\ hist.reloj <= MaxReloj
        /\ IF ~rep.has_enough_data
           THEN /\ out' = rep
                /\ hist' = [hist EXCEPT !.fallo = FALSE]
                /\ UNCHANGED correlaciones
           ELSE \E ok \in BOOLEAN, times \in Clocks(hist.reloj, Len(rep.correlations)) :
                    IF ok
                    THEN /\ correlaciones' = Upsert(correlaciones, <<>>, 1,
                                                    rep.correlations, times)
                         /\ out' = rep
                         /\ hist' = [reloj |-> IF times = <<>> THEN hist.reloj
                                               ELSE times[Len(times)],
                                     fallo |-> FALSE]
                    ELSE /\ out' = Raised
                         /\ hist' = [reloj |-> IF times = <<>> THEN hist.reloj
                                               ELSE times[Len(times)],
                                     fallo |-> TRUE]
                         /\ UNCHANGED correlaciones
        /\ UNCHANGED <<usuarios, habitos, cacheVars, reqVars, ret, arg>>

NextPatterns == AnalyzeUserPatterns

SpecPatterns == InitPatterns /\ [][NextPatterns]_vars

\* The analysis returned a report with correlations
Reported == out.op = "analyze_user_patterns" /\ ~out.raised /\ out.has_enough_data

\* In-window mood samples on the dates habit h was completed, and on the others
HabitDaySamples(h) ==
    Muestras(arg.moods, {d \in Dias : InWindow(d) /\ d \in RegistroDays(arg.registros[h])})
OtherDaySamples(h) ==
    Muestras(arg.moods, {d \in Dias : InWindow(d) /\ d \notin RegistroDays(arg.registros[h])})

\* C15: a habit with fewer than 5 in-window mood samples on its completion dates,
\* or fewer than 5 on the other dates, is absent from the correlations that
\* analyze_user_patterns returns, and the run writes no correlation row for it.
C15_FewSamplesNotReported ==
    Reported =>
        /\ \A i \in 1..Len(out.correlations) :
              /\ HabitDaySamples(out.correlations[i].habit_id) >= 5
              /\ OtherDaySamples(out.correlations[i].habit_id) >= 5
        /\ \A r \in 1..Len(correlaciones), h \in DOMAIN habitos :
              (habitos[h].activo /\ habitos[h].nombre_habito = correlaciones[r].factor) =>
                  /\ HabitDaySamples(h) >= 5
                  /\ OtherDaySamples(h) >= 5

\* C16: every correlation that analyze_user_patterns reports, and every row of
\* the correlations table, has an impact within [-1, 1] (in thousandths) and a
\* confidence within [0, 1] (in hundredths), whatever the mood samples of nivel
\* 1..10 and the habit completions are.
C16_ImpactAndConfidenceBounded ==
    /\ Reported =>
          \A i \in 1..Len(out.correlations) :
              /\ out.correlations[i].impact \in -1000..1000
              /\ out.correlations[i].confidence \in 0..100
    /\ \A r \in 1..Len(correlaciones) :
          /\ correlaciones[r].impacto_animo \in -1000..1000
          /\ correlaciones[r].confianza_estadistica \in 0..100

\* A habit done on the days of nivel 10 against days of nivel 1, with 20 samples
\* or more: the largest impact there is, at full confidence, reported and stored
C16_Witness ==
    /\ Reported
    /\ Len(out.correlations) = 1
    /\ out.correlations[1].impact = 900
    /\ out.correlations[1].confidence = 100
    /\ Len(correlaciones) = 1
    /\ correlaciones[1].impacto_animo = 900
    /\ correlaciones[1].confianza_estadistica = 100

\* fecha_calculo of the row stored for a reported correlation
ComputedAt(c) == correlaciones[Existing(correlaciones, 1, c.habit)].fecha_calculo

OnlySignificant ==
    \A i \in 1..Len(out.correlations) : Abs(out.correlations[i].impact) >= 300

ByImpactDescending ==
    \A i, j \in 1..Len(out.correlations) :
        i < j => Abs(out.correlations[i].impact) >= Abs(out.correlations[j].impact)

TiesByConfidenceThenRecency ==
    \A i, j \in 1..Len(out.correlations) :
        (i < j /\ Abs(out.correlations[i].impact) = Abs(out.correlations[j].impact)) =>
            \/ out.correlations[i].confidence > out.correlations[j].confidence
            \/ /\ out.correlations[i].confidence = out.correlations[j].confidence
               /\ ComputedAt(out.correlations[i]) >= ComputedAt(out.correlations[j])

\* C17: the correlations analyze_user_patterns returns all have |impact| >= 0.3
\* and come in descending order of |impact|; among equal |impact| the one with
\* the higher confidence comes first, and among those the one computed later.
C17_FilteredAndOrdered ==
    Reported => (OnlySignificant /\ ByImpactDescending /\ TiesByConfidenceThenRecency)

\* The first two parts of the statement on their own
FilteredAndSorted == Reported => (OnlySignificant /\ ByImpactDescending)

\* The mood samples of the user inside the lookback window
WindowSamples == Muestras(arg.moods, {d \in Dias : InWindow(d)})

\* C18: with fewer than 5 mood samples in the lookback window
\* analyze_user_patterns raises nothing and returns has_enough_data = false with
\* the number of samples found and the required minimum of 5; with 5 or more the
\* report it returns has has_enough_data = true.
C18_EnoughDataFlag ==
    out.op = "analyze_user_patterns" =>
        /\ WindowSamples < 5 =>
              /\ ~out.raised
              /\ ~out.has_enough_data
              /\ out.data_points = WindowSamples
              /\ out.min_required = 5
        /\ (WindowSamples >= 5 /\ ~out.raised) =>
              /\ out.has_enough_data
              /\ out.data_points = WindowSamples

\* Four samples inside the window and five before it: not enough data
C18_Witness ==
    /\ out.op = "analyze_user_patterns" /\ ~out.raised
    /\ ~out.has_enough_data
    /\ out.data_points = 4
    /\ arg.moods[0].n = 5
    /\ correlaciones = <<>>

\* C20: when the write of the correlations to the database fails, the call of
\* analyze_user_patterns still returns the report it computed in memory.
C20_ReportSurvivesWriteFailure ==
    (out.op = "analyze_user_patterns" /\ hist.fallo) =>
        /\ ~out.raised
        /\ out = Report(habitos, arg.moods, arg.registros)

\* A call of analyze_user_patterns that follows a call which returned, the
\* database accepting the write-back of both
RepeatedCall ==
    /\ out.op = "analyze_user_patterns" /\ ~out.raised
    /\ out'.op = "analyze_user_patterns" /\ ~hist'.fallo

C21_SecondCallHits ==
    RepeatedCall =>
        /\ out' = out
        /\ stats'["correlaciones"].hits = stats["correlaciones"].hits + 1

\* C21: a call of analyze_user_patterns that follows another one for the same
\* user and lookback, with no write in between, returns the same report and is
\* served from the correlations cache: the cache's hit counter goes up by one.
C21_SecondCallIsCacheHit == [][C21_SecondCallHits]_vars

\* The report part of the statement alone
SameReportAgain == [][RepeatedCall => out' = out]_vars

----------------------------------------------------------------------------
(* SpecInsights: get_relevant_insights_for_conversation for user 1.  The     *)
(* in-window days are two different weekdays; arg.notas is the text noted on *)
(* the samples of low mood.                                                  *)

\* The first position of a non-empty sequence whose key is largest / smallest
FirstMax(seq, key(_)) ==
    CHOOSE i \in 1..Len(seq) :
        /\ \A j \in 1..Len(seq) : key(seq[j]) <= key(seq[i])
        /\ \A j \in 1..(i - 1) : key(seq[j]) < key(seq[i])
FirstMin(seq, key(_)) ==
    CHOOSE i \in 1..Len(seq) :
        /\ \A j \in 1..Len(seq) : key(seq[j]) >= key(seq[i])
        /\ \A j \in 1..(i - 1) : key(seq[j]) > key(seq[i])

\* weekday_patterns: the weekdays with 2 samples or more, in the order of their
\* first sample, each with its average mood
RECURSIVE WeekdayPatterns(_, _)
WeekdayPatterns(moods, d) ==
    IF d \notin Dias THEN <<>>
    ELSE (IF InWindow(d) /\ moods[d].n >= 2
          THEN <<[day |-> d, avg_mood |-> moods[d].nivel, count |-> moods[d].n]>>
          ELSE <<>>) \o WeekdayPatterns(moods, d + 1)

AvgMood(x) == x.avg_mood

\* _analyze_temporal_patterns: found = FALSE stands for the empty dictionary
TemporalPatterns(moods) ==
    LET wp == WeekdayPatterns(moods, 0)
    IN  IF wp = <<>> THEN [found |-> FALSE]
        ELSE [found |-> TRUE, best_day |-> wp[FirstMax(wp, AvgMood)].day,
              worst_day |-> wp[FirstMin(wp, AvgMood)].day]

Notas == {"", "mucho trabajo"}

\* low_mood_states: the in-window samples with nivel <= 4
LowMoodSamples(moods) == Muestras(moods, {d \in MoodDays(moods) : moods[d].nivel <= 4})

\* _identify_emotional_triggers: the categories whose keywords occur in the notes
EmotionalTriggers(moods, notas) ==
    IF LowMoodSamples(moods) = 0 THEN <<>>
    ELSE IF notas = "mucho trabajo"
         THEN <<[trigger |-> "trabajo", occurrences |-> LowMoodSamples(moods)]>>
         ELSE <<>>

Positive(c) == c.impact > 0
Negative(c) == c.impact < 0

\* _generate_actionable_insights: each sentence by what it is about
ActionableInsights(correlations, temporal_patterns, emotional_triggers) ==
    LET top_positive == SelectSeq(correlations, Positive)
        top_negative == SelectSeq(correlations, Negative)
    IN  (IF top_positive # <<>>
         THEN <<[about |-> "habit", habit_id |-> top_positive[1].habit_id]>> ELSE <<>>)
        \o (IF top_negative # <<>>
            THEN <<[about |-> "habit", habit_id |-> top_negative[1].habit_id]>> ELSE <<>>)
        \o (IF temporal_patterns.found
            THEN <<[about |-> "weekday", best_day |-> temporal_patterns.best_day,
                    worst_day |-> temporal_patterns.worst_day]>> ELSE <<>>)
        \o (IF emotional_triggers # <<>>
            THEN <<[about |-> "trigger", trigger |-> emotional_triggers[1].trigger]>>
            ELSE <<>>)

\* c['impact'] > 0.3, in thousandths
AboveThreshold(c) == c.impact > 300

\* What get_relevant_insights_for_conversation returns from the report rep;
\* current_mood = 0 stands for None
RelevantInsight(rep, insights, current_mood) ==
    LET positive_habits == SelectSeq(rep.correlations, AboveThreshold)
    IN  IF insights = <<>> THEN [text |-> "empty"]
        ELSE IF current_mood # 0 /\ current_mood <= 4 /\ positive_habits # <<>>
             THEN [text |-> "suggestion", habit_id |-> positive_habits[1].habit_id]
             ELSE [text |-> "insight", insight |-> insights[1]]

CurrentMoods == {0, 4, 5}

InsightMoodInputs == {m \in MoodDayInputs(1) : m.n <= min_data_points}

InitInsights ==
    /\ usuarios = [u \in Usuarios |-> IF u = 1 THEN NewUsuario("Usuario") ELSE NoRow]
    /\ \E h2 \in HabitoInputs :
          habitos = <<[exists |-> TRUE, usuario_id |-> 1, nombre_habito |-> "correr",
                       activo |-> TRUE], h2>>
    /\ correlaciones = NoCorrelaciones
    /\ usuario_cache = EmptyCache
    /\ habitos_activos_cache = EmptyCache
    /\ trust_level_cache = EmptyCache
    /\ stats = AllStats
    /\ InitNoRequests
    /\ \E m1 \in InsightMoodInputs, m2 \in InsightMoodInputs,
          r \in [1..2 -> RegistroInputs], notas \in Notas :
          arg = [moods |-> [d \in Dias |-> IF d = 0 THEN [n |-> 0, nivel |-> 1]
                                           ELSE IF d = 1 THEN m1 ELSE m2],
                 registros |-> r, notas |-> notas]
    /\ out = NoRet
    /\ ret = NoRet
    /\ hist = [reloj |-> 0, fallo |-> FALSE]

\* get_relevant_insights_for_conversation(db, 1, current_mood): the analysis
\* with its write-back, then the selection
GetRelevantInsights ==
    \E current_mood \in CurrentMoods :
        LET rep == Report(habitos, arg.moods, arg.registros)
            op  == "get_relevant_insights_for_conversation"
        IN  /\ out = NoRet
            /\ IF ~rep.has_enough_data
               THEN /\ out' = [op |-> op, raised |-> FALSE, current_mood |-> current_mood,
                               text |-> "empty"]
                    /\ UNCHANGED <<correlaciones, hist>>
               ELSE \E ok \in BOOLEAN,
                       times \in Clocks(hist.reloj, Len(rep.correlations)) :
                        /\ hist' = [reloj |-> IF times = <<>> THEN hist.reloj
                                              ELSE times[Len(times)],
                                    fallo |-> ~ok]
                        /\ IF ok
                           THEN /\ correlaciones' = Upsert(correlaciones, <<>>, 1,
                                                           rep.correlations, times)
                                /\ out' = [op |-> op, raised |-> FALSE,
                                           current_mood |-> current_mood]
                                          @@ RelevantInsight(rep,
                                                ActionableInsights(rep.correlations,
                                                    TemporalPatterns(arg.moods),
                                                    EmotionalTriggers(arg.moods, arg.notas)),
                                                current_mood)
                           ELSE /\ out' = [op |-> op, raised |-> TRUE]
                                /\ UNCHANGED correlaciones
            /\ UNCHANGED <<usuarios, habitos, cacheVars, reqVars, ret, arg>>

NextInsights == GetRelevantInsights

SpecInsights == InitInsights /\ [][NextInsights]_vars

\* The call returned
Selected == out.op = "get_relevant_insights_for_conversation" /\ ~out.raised

\* The reported correlations of positive impact, and those of largest impact
PositiveReported ==
    LET corrs == Correlations(habitos, arg.moods, arg.registros)
    IN  {corrs[i].habit_id : i \in {j \in 1..Len(corrs) : corrs[j].impact > 0}}
LargestPositive ==
    LET corrs == Correlations(habitos, arg.moods, arg.registros)
    IN  {corrs[i].habit_id : i \in {j \in 1..Len(corrs) :
            /\ corrs[j].impact > 0
            /\ \A k \in 1..Len(corrs) : corrs[k].impact <= corrs[j].impact}}

\* The insights of the analysis, empty when it has too little data
InsightsOfAnalysis ==
    IF WindowSamples < min_data_points THEN <<>>
    ELSE ActionableInsights(Correlations(habitos, arg.moods, arg.registros),
                            TemporalPatterns(arg.moods),
                            EmotionalTriggers(arg.moods, arg.notas))

\* C22: get_relevant_insights_for_conversation returns nothing when the analysis
\* has too little data or no insight; otherwise, when current_mood is given and
\* at most 4 and some reported correlation has positive impact, a suggestion
\* naming the reported correlation of largest positive impact; otherwise the
\* first insight of the analysis.
C22_DeterministicSelection ==
    Selected =>
        IF InsightsOfAnalysis = <<>> THEN out.text = "empty"
        ELSE IF out.current_mood # 0 /\ out.current_mood <= 4 /\ PositiveReported # {}
             THEN out.text = "suggestion" /\ out.habit_id \in LargestPositive
             ELSE out.text = "insight" /\ out.insight = InsightsOfAnalysis[1]

\* The reported correlations whose impact is above 0.3
AboveReported ==
    LET corrs == Correlations(habitos, arg.moods, arg.registros)
    IN  {corrs[i].habit_id : i \in {j \in 1..Len(corrs) : corrs[j].impact > 300}}

\* The same selection with the suggestion made only for impacts above 0.3
SelectionAboveThreshold ==
    Selected =>
        IF InsightsOfAnalysis = <<>> THEN out.text = "empty"
        ELSE IF out.current_mood # 0 /\ out.current_mood <= 4 /\ AboveReported # {}
             THEN out.text = "suggestion" /\ out.habit_id \in LargestPositive
             ELSE out.text = "insight" /\ out.insight = InsightsOfAnalysis[1]

----------------------------------------------------------------------------
(* Trust info of a user whose messages arrive one after another (SpecTrustSeq) *)

\* First interaction count of the level that follows nivel
NextLevelFloor(nivel) ==
    CASE nivel = 1 -> 11
      [] nivel = 2 -> 31
      [] nivel = 3 -> 61
      [] nivel = 4 -> 101

C23_InfoFields ==
    (ret.op = "get_user_trust_info" /\ ret.found) =>
        /\ ret.total_interacciones = usuarios[ret.usuario_id].total_interacciones
        /\ ret.nivel_confianza = usuarios[ret.usuario_id].nivel_confianza
        /\ ret.mensajes_hasta_siguiente_nivel =
              (IF ret.nivel_confianza = 5 THEN 0
               ELSE IF NextLevelFloor(ret.nivel_confianza) > ret.total_interacciones
                    THEN NextLevelFloor(ret.nivel_confianza) - ret.total_interacciones
                    ELSE 0)
        /\ (ret.es_nivel_maximo <=> ret.nivel_confianza = 5)

\* What get_user_trust_info reports before and after one update_trust_level
C23_Countdown ==
    \A u \in Usuarios :
        (hist'.calls # hist.calls /\ ret'.usuario_id = u) =>
            LET before == get_user_trust_info(World, u).result
                         .mensajes_hasta_siguiente_nivel
                after  == get_user_trust_info([World EXCEPT !.usuarios = usuarios'], u)
                         .result.mensajes_hasta_siguiente_nivel
            IN  /\ usuarios'[u].nivel_confianza >= usuarios[u].nivel_confianza
                /\ (usuarios'[u].nivel_confianza > usuarios[u].nivel_confianza)
                       <=> (before = 1)
                /\ before > 1 => after = before - 1

\* C23: get_user_trust_info reports mensajes_hasta_siguiente_nivel = max(0, first
\* count of the next level - total_interacciones) at levels 1 to 4 and 0 at level
\* 5, and es_nivel_maximo exactly at level 5; the number is exact: each
\* update_trust_level lowers it by one and the level rises on the call made when
\* it is 1, never earlier.
C23_MessagesToNextLevel == []C23_InfoFields /\ [][C23_Countdown]_vars

\* The info read at 100 interactions: level 4, one message before level 5
C23_Witness ==
    /\ ret.op = "get_user_trust_info" /\ ret.found
    /\ ret.total_interacciones = 100 /\ ret.nivel_confianza = 4
    /\ ret.mensajes_hasta_siguiente_nivel = 1 /\ ~ret.es_nivel_maximo

----------------------------------------------------------------------------
(* app/services/emotion_analysis_service.py                                  *)
(* Timestamps are counted in half days from 00:00 of the 27th of a month of  *)
(* 31 days.  muestras maps each timestamp to the samples taken at it: n      *)
(* samples of one nivel.                                                     *)

Tiempos == {0, 1, 3, 5, 30}
NivelesCiclo == {4, 6, 7}

\* EstadoAnimo.timestamp >= cutoff_date, .order_by(EstadoAnimo.timestamp)
RECURSIVE Ascending(_)
Ascending(S) ==
    IF S = {} THEN <<>>
    ELSE LET t == CHOOSE x \in S : \A y \in S : x <= y
         IN  <<t>> \o Ascending(S \ {t})
MoodTimes(muestras, cutoff) ==
    Ascending({t \in Tiempos : t >= cutoff /\ muestras[t].n > 0})

RECURSIVE SumSeq(_, _)
SumSeq(f(_), seq) == IF seq = <<>> THEN 0 ELSE f(Head(seq)) + SumSeq(f, Tail(seq))

\* len(moods)
NumMoods(muestras, cutoff) ==
    LET n(t) == muestras[t].n IN SumSeq(n, MoodTimes(muestras, cutoff))

\* mood.timestamp.day
DayOfMonth(t) == ((26 + (t \div 2)) % 31) + 1

\* week_of_month = (mood.timestamp.day - 1) // 7 + 1
week_of_month(t) == ((DayOfMonth(t) - 1) \div 7) + 1

\* _analyze_monthly_pattern: 'Semana w' -> avg_mood (in tenths) and count
analyze_monthly_pattern(muestras, times) ==
    LET by_week(w) == SelectSeq(times, LAMBDA t : week_of_month(t) = w)
        n(t)       == muestras[t].n
        total(t)   == muestras[t].n * muestras[t].nivel
    IN  [w \in {x \in 1..4 : by_week(x) # <<>>} |->
            [avg_mood |-> RoundDiv(10 * SumSeq(total, by_week(w)), SumSeq(n, by_week(w))),
             count |-> SumSeq(n, by_week(w))]]

NoPattern == [found |-> FALSE]
NoPrediction == [found |-> FALSE]

\* (low_moods[i + 1].timestamp - low_moods[i].timestamp).days for the consecutive
\* low samples taken at different timestamps, the intervals of 0 days dropped;
\* samples sharing a timestamp are 0 days apart
RECURSIVE Intervals(_)
Intervals(low) ==
    IF Len(low) < 2 THEN <<>>
    ELSE LET interval == (low[2] - low[1]) \div 2
         IN  (IF interval > 0 THEN <<interval>> ELSE <<>>) \o Intervals(Tail(low))

\* _predict_low_mood_time: last_low + timedelta(days=avg_interval), in half days,
\* as the fraction num / den
predict_low_mood_time(muestras, times, predominant_cycle) ==
    LET low       == SelectSeq(times, LAMBDA t : muestras[t].nivel <= 4)
        n(t)      == muestras[t].n
        intervals == Intervals(low)
        days(d)   == d
    IN  IF times = <<>> \/ predominant_cycle = "unknown" THEN NoPrediction
        ELSE IF low = <<>> THEN NoPrediction
        ELSE IF SumSeq(n, low) >= 2 /\ intervals # <<>>
             THEN [found |-> TRUE,
                   num |-> low[Len(low)] * Len(intervals) + 2 * SumSeq(days, intervals),
                   den |-> Len(intervals)]
             ELSE NoPrediction

\* _detect_predominant_cycle: 'unknown' when a pattern is empty; which of daily,
\* weekly and monthly it names otherwise is not distinguished
detect_predominant_cycle(times) == IF times = <<>> THEN "unknown" ELSE "cycle"

\* The dictionary detect_emotional_cycles returns
detect_emotional_cycles(muestras, cutoff) ==
    LET times == MoodTimes(muestras, cutoff)
        moods == NumMoods(muestras, cutoff)
    IN  IF moods < 5 THEN [op |-> "detect_emotional_cycles", error |-> TRUE]
        ELSE [op |-> "detect_emotional_cycles", error |-> FALSE,
              monthly_pattern |->
                  IF moods > 20
                  THEN [found |-> TRUE, weeks |-> analyze_monthly_pattern(muestras, times)]
                  ELSE NoPattern,
              predominant_cycle |-> detect_predominant_cycle(times),
              next_low_mood_prediction |->
                  predict_low_mood_time(muestras, times, detect_predominant_cycle(times))]

\* mood.nivel <= 4: the sample opens a crisis when none is open
Opens(nivel) == nivel <= 4

\* A crisis closed by any sample of nivel 6 or more
ClosesFromSix(nivel) == nivel >= 6

\* mood.nivel > 6: the sample closes the open crisis
Closes(nivel) == nivel > 6

\* The loop over moods: the periods appended after the samples at times
RECURSIVE ScanMoods(_, _, _, _)
ScanMoods(muestras, times, in_crisis, crisis_start) ==
    IF times = <<>> THEN <<>>
    ELSE LET t == Head(times)
             nivel == muestras[t].nivel
         IN  IF Opens(nivel) /\ ~in_crisis
             THEN ScanMoods(muestras, Tail(times), TRUE, t)
             ELSE IF Closes(nivel) /\ in_crisis
             THEN <<[start |-> crisis_start, recovery |-> t - crisis_start,
                     final_mood |-> nivel]>>
                      \o ScanMoods(muestras, Tail(times), FALSE, crisis_start)
             ELSE ScanMoods(muestras, Tail(times), in_crisis, crisis_start)

\* A recovery counted as successful only when it ends above 7
RecoveredAboveSeven(final_mood) == final_mood > 7

\* m >= 6 in success_rate
Recovered(final_mood) == final_mood >= 6

\* round(max(0, min(10, success_rate * 10 - avg_recovery in days)), 1), in
\* tenths; recovery_sum is in half days
ResilienceScore(successes, recovery_sum, periods) ==
    LET num == 20 * successes - recovery_sum
        den == 2 * periods
    IN  IF num <= 0 THEN 0
        ELSE IF num >= 10 * den THEN 100
        ELSE RoundDiv(10 * num, den)

\* The dictionary analyze_resilience returns, with the periods it found; the
\* names in recovery_strategies are left out
analyze_resilience(muestras, cutoff) ==
    LET times   == MoodTimes(muestras, cutoff)
        periods == ScanMoods(muestras, times, FALSE, 0)
        recovery(p)  == p.recovery
        success(p)   == IF Recovered(p.final_mood) THEN 1 ELSE 0
        successes    == SumSeq(success, periods)
        fastest      == CHOOSE i \in 1..Len(periods) :
                            \A j \in 1..Len(periods) : periods[i].recovery <= periods[j].recovery
        slowest      == CHOOSE i \in 1..Len(periods) :
                            \A j \in 1..Len(periods) : periods[i].recovery >= periods[j].recovery
    IN  IF NumMoods(muestras, cutoff) < 5
        THEN [op |-> "analyze_resilience", error |-> TRUE, low_mood_periods |-> <<>>]
        ELSE IF periods = <<>>
        THEN [op |-> "analyze_resilience", error |-> TRUE, low_mood_periods |-> <<>>]
        ELSE [op |-> "analyze_resilience", error |-> FALSE,
              low_mood_periods |-> periods,
              recovery_success_rate |-> RoundDiv(100 * successes, Len(periods)),
              fastest_recovery |-> periods[fastest].recovery,
              slowest_recovery |-> periods[slowest].recovery,
              recovery_periods_analyzed |-> Len(periods),
              resilience_score |->
                  ResilienceScore(successes, SumSeq(recovery, periods), Len(periods))]

----------------------------------------------------------------------------
(* SpecEmotion: the analyses of emotion_analysis_service for user 1 on every *)
(* combination of the samples below; arg.cutoff is the start of the window.  *)

SampleInputs(t) ==
    IF t = 5 THEN {[n |-> 0, nivel |-> 6], [n |-> 17, nivel |-> 6]}
    ELSE {m \in [n : 0..MaxPorFranja, nivel : NivelesCiclo] : m.n = 0 => m.nivel = 6}

InitEmotion ==
    /\ usuarios = [u \in Usuarios |-> IF u = 1 THEN NewUsuario("Usuario") ELSE NoRow]
    /\ habitos = NoHabitos
    /\ correlaciones = NoCorrelaciones
    /\ InitCaches
    /\ InitNoRequests
    /\ \E m \in [Tiempos -> UNION {SampleInputs(t) : t \in Tiempos}], cutoff \in {0, 1} :
          /\ \A t \in Tiempos : m[t] \in SampleInputs(t)
          /\ arg = [muestras |-> m, cutoff |-> cutoff]
    /\ out = NoRet
    /\ ret = NoRet
    /\ hist = IdleHist

DetectEmotionalCycles ==
    /\ out' = detect_emotional_cycles(arg.muestras, arg.cutoff)
    /\ UNCHANGED <<dbVars, cacheVars, reqVars, ret, hist, arg>>

AnalyzeResilience ==
    /\ out' = analyze_resilience(arg.muestras, arg.cutoff)
    /\ UNCHANGED <<dbVars, cacheVars, reqVars, ret, hist, arg>>

NextEmotion == DetectEmotionalCycles \/ AnalyzeResilience

SpecEmotion == InitEmotion /\ [][NextEmotion]_vars

\* The timestamps of the window and the number of samples it holds
Ventana == {t \in Tiempos : t >= arg.cutoff}
EnVentana == SumOver([t \in Tiempos |-> arg.muestras[t].n], Ventana)

Cycles == out.op = "detect_emotional_cycles"

\* C24: detect_emotional_cycles returns the insufficient-data result below 5
\* samples in the window, a report without monthly_pattern from 5 to 19 samples
\* and a report with monthly_pattern from 20 samples on.
C24_MonthlyPatternFrom20 ==
    Cycles =>
        IF EnVentana < 5 THEN out.error
        ELSE /\ ~out.error
             /\ out.monthly_pattern.found <=> EnVentana >= 20

\* The same with the monthly pattern starting at 21 samples
MonthlyPatternFrom21 ==
    Cycles =>
        IF EnVentana < 5 THEN out.error
        ELSE /\ ~out.error
             /\ out.monthly_pattern.found <=> EnVentana >= 21

\* The samples of the window with nivel <= 4
LowTimes == {t \in Ventana : arg.muestras[t].n > 0 /\ arg.muestras[t].nivel <= 4}
LowSamples == SumOver([t \in Tiempos |-> arg.muestras[t].n], LowTimes)
FirstLow == CHOOSE t \in LowTimes : \A x \in LowTimes : t <= x
LastLow  == CHOOSE t \in LowTimes : \A x \in LowTimes : t >= x

\* C25: in a report of detect_emotional_cycles, with 2 or more samples of nivel
\* <= 4 in the window next_low_mood_prediction is the time of the last of them
\* plus the mean interval between consecutive ones (the time from the first to
\* the last divided by their number less one); with fewer than 2 it is null.
C25_LowMoodPrediction ==
    (Cycles /\ ~out.error) =>
        IF LowSamples >= 2
        THEN /\ out.next_low_mood_prediction.found
             /\ out.next_low_mood_prediction.num * (LowSamples - 1) =
                    out.next_low_mood_prediction.den *
                        (LastLow * (LowSamples - 1) + (LastLow - FirstLow))
        ELSE ~out.next_low_mood_prediction.found

\* With fewer than 2 low samples the prediction is null
NoPredictionBelowTwo ==
    (Cycles /\ ~out.error /\ LowSamples < 2) => ~out.next_low_mood_prediction.found

BucketCounts ==
    SumOver([w \in 1..5 |-> IF w \in DOMAIN out.monthly_pattern.weeks
                            THEN out.monthly_pattern.weeks[w].count ELSE 0], 1..5)

\* C30: the counts of the week-of-month buckets of monthly_pattern add up to the
\* number of samples of the window.
C30_EverySampleInOneBucket ==
    (Cycles /\ ~out.error /\ out.monthly_pattern.found) => BucketCounts = EnVentana

\* The same for the samples taken on days 1 to 28
BucketsCountDaysTo28 ==
    (Cycles /\ ~out.error /\ out.monthly_pattern.found) =>
        BucketCounts = SumOver([t \in Tiempos |-> arg.muestras[t].n],
                               {t \in Ventana : DayOfMonth(t) <= 28})

Resilience == out.op = "analyze_resilience"

\* The timestamps of the window that have samples, and the nivel of a timestamp
Presentes == {t \in Ventana : arg.muestras[t].n > 0}
NivelEn(t) == arg.muestras[t].nivel

\* Some sample of nivel above 6 lies strictly between a and b
HighBetween(a, b) == \E m \in Presentes : a < m /\ m < b /\ NivelEn(m) > 6

\* No crisis is open when the sample at s comes: every earlier low sample has
\* been followed by a sample above 6
OpensAt(s) ==
    /\ NivelEn(s) <= 4
    /\ \A k \in Presentes : (k < s /\ NivelEn(k) <= 4) => HighBetween(k, s)

\* The crisis opened at s closes at e, the first later sample above 6
ClosesAt(s, e) == OpensAt(s) /\ s < e /\ NivelEn(e) > 6 /\ ~HighBetween(s, e)

ClosedPeriods ==
    {[start |-> s, recovery |-> e - s, final_mood |-> NivelEn(e)] :
        <<s, e>> \in {x \in Presentes \X Presentes : ClosesAt(x[1], x[2])}}

C29_SuccessRateIsOne ==
    (Resilience /\ ~out.error) =>
        LET total == SumOver([p \in ClosedPeriods |-> p.recovery], ClosedPeriods)
            n     == Cardinality(ClosedPeriods)
        IN  /\ out.recovery_success_rate = 100
            /\ \A i \in 1..Len(out.low_mood_periods) :
                   out.low_mood_periods[i].final_mood >= 6
            /\ out.resilience_score =
                   (IF 20 * n - total < 0 THEN 0
                    ELSE IF 20 * n - total > 20 * n THEN 100
                    ELSE RoundDiv(10 * (20 * n - total), 2 * n))

\* Two recoveries, of half a day and of 13.5 days: the mean is 7 days, the score 3.0
C29_Witness ==
    /\ Resilience /\ ~out.error
    /\ out.recovery_periods_analyzed = 2
    /\ out.fastest_recovery = 1 /\ out.slowest_recovery = 27
    /\ out.recovery_success_rate = 100
    /\ out.resilience_score = 30

----------------------------------------------------------------------------
(* app/services/progress_tracker_service.py: _detect_positive_streak          *)
(* arg.dias holds the samples of user 1 day by day, the oldest day first and  *)
(* the last one today; each day is the sequence of the niveles noted on it.   *)

MOOD_THRESHOLD_POSITIVE == 7
MIN_RACHA_DIAS == 3

\* EstadoAnimo.timestamp >= hace_14_dias: the days of the last 14 days, the most
\* recent first (sorted(moods_por_dia.keys(), reverse=True))
RECURSIVE dias_ordenados(_, _)
dias_ordenados(dias, d) ==
    IF d < 1 \/ Len(dias) - d > 14 THEN <<>>
    ELSE <<dias[d]>> \o dias_ordenados(dias, d - 1)

RECURSIVE SumaDia(_)
SumaDia(niveles) == IF niveles = <<>> THEN 0 ELSE Head(niveles) + SumaDia(Tail(niveles))

\* A day counts only when its average is above the threshold
PositivoAboveThreshold(niveles) == SumaDia(niveles) > MOOD_THRESHOLD_POSITIVE * Len(niveles)

\* promedio >= self.MOOD_THRESHOLD_POSITIVE, promedio = sum(niveles) / len(niveles)
Positivo(niveles) == SumaDia(niveles) >= MOOD_THRESHOLD_POSITIVE * Len(niveles)

\* The loop over promedios_dias: one more for each positive day until the first
\* day that is not
RECURSIVE racha_actual(_)
racha_actual(promedios) ==
    IF promedios = <<>> THEN 0
    ELSE IF Positivo(Head(promedios)) THEN 1 + racha_actual(Tail(promedios))
    ELSE 0

\* What _detect_positive_streak returns: a ProgressInsight or None (found = FALSE);
\* racha is the local racha_actual
detect_positive_streak(dias) ==
    LET racha == racha_actual(dias_ordenados(dias, Len(dias)))
    IN  IF dias = <<>>
        THEN [op |-> "_detect_positive_streak", found |-> FALSE, racha |-> 0]
        ELSE IF racha >= MIN_RACHA_DIAS
        THEN [op |-> "_detect_positive_streak", found |-> TRUE, racha |-> racha,
              tipo |-> "racha_positiva", dias_racha |-> racha,
              threshold |-> MOOD_THRESHOLD_POSITIVE,
              nivel_significancia |-> IF 4 + racha > 10 THEN 10 ELSE 4 + racha]
        ELSE [op |-> "_detect_positive_streak", found |-> FALSE, racha |-> racha]

----------------------------------------------------------------------------
(* SpecStreak: days with mood samples are recorded one after another and the *)
(* streak is computed at any moment.                                          *)

DayInputs == {<<7>>, <<3>>, <<6, 7>>}

InitStreak ==
    /\ usuarios = [u \in Usuarios |-> IF u = 1 THEN NewUsuario("Usuario") ELSE NoRow]
    /\ habitos = NoHabitos
    /\ correlaciones = NoCorrelaciones
    /\ InitCaches
    /\ InitNoRequests
    /\ arg = [dias |-> <<>>]
    /\ out = NoRet
    /\ ret = NoRet
    /\ hist = IdleHist

\* crud.create_estado_animo for each sample of a new day
CreateEstadoAnimo ==
    \E niveles \in DayInputs :
        /\ Len(arg.dias) < MaxDiasRacha
        /\ arg' = [arg EXCEPT !.dias = Append(@, niveles)]
        /\ out' = NoRet
        /\ UNCHANGED <<dbVars, cacheVars, reqVars, ret, hist>>

DetectPositiveStreak ==
    /\ out' = detect_positive_streak(arg.dias)
    /\ UNCHANGED <<dbVars, cacheVars, reqVars, ret, hist, arg>>

NextStreak == CreateEstadoAnimo \/ DetectPositiveStreak

SpecStreak == InitStreak /\ [][NextStreak]_vars

Streak == out.op = "_detect_positive_streak"

\* The day d days before today has an average mood of 7 or more
GoodDay(d) ==
    LET niveles == arg.dias[Len(arg.dias) - d]
    IN  SumOver(niveles, 1..Len(niveles)) >= 7 * Len(niveles)

\* The number of days, from today backward, up to the first day below 7
CurrentStreak ==
    CHOOSE k \in 0..Len(arg.dias) :
        /\ \A d \in 0..(k - 1) : GoodDay(d)
        /\ k < Len(arg.dias) => ~GoodDay(k)

\* The last recorded day has the single sample 3 and follows 7 days of mood >= 7
LowDayAfterSeven ==
    /\ Len(arg.dias) = 8
    /\ arg.dias[8] = <<3>>
    /\ \A d \in 1..7 : GoodDay(d)

\* C27 as stated: the streak is counted from the most recent day backward over
\* days of mood 7 or more, a streak of 3 days or more is reported with its
\* fields, and the computation made after a day of mood 3 was inserted behind
\* 7 days of mood >= 7 gives a streak length of 1.
C27_StreakResetsToOne ==
    Streak =>
        /\ out.found <=> CurrentStreak >= 3
        /\ out.found => out.dias_racha = CurrentStreak /\ out.threshold = 7
        /\ IF LowDayAfterSeven THEN out.racha = 1 ELSE out.racha = CurrentStreak

\* C27: the streak is the number of days, from the most recent day backward,
\* up to the first day whose mood is below 7; a streak of 3 days or more is
\* reported with its fields (7 days give 7); the computation made after a day
\* of mood 3 was inserted behind them finds a streak of 0 and reports none.
C27_StreakFromMostRecentDay ==
    Streak =>
        /\ out.racha = CurrentStreak
        /\ out.found <=> CurrentStreak >= 3
        /\ out.found => out.dias_racha = CurrentStreak /\ out.threshold = 7
        /\ LowDayAfterSeven => out.racha = 0 /\ ~out.found

\* The computation after the day of mood 3 was inserted behind 7 good days
C27_Witness ==
    /\ Streak /\ LowDayAfterSeven
    /\ out.racha = 0 /\ ~out.found

----------------------------------------------------------------------------
(* SpecChat: chat_with_loki with a write step that may raise.  Every write  *)
(* step calls db.commit() itself.  Inside begin_nested() the first commit   *)
(* either releases the savepoint only (Session of SQLAlchemy 1.x) or        *)
(* commits the whole transaction (2.x); the repository pins no version, so  *)
(* loc.commit_releases_savepoint is chosen at the start.  arg holds the     *)
(* persisted row counts of the conversation, mood and habit record tables.  *)

NoFilas == [conversaciones |-> 0, estados_animo |-> 0, registros |-> 0]

\* ai_response['context_extracted'].get('mood_level'); 0 when no level was found
MoodLevelInputs == {0, 5}

Pasos == <<"update_trust_level", "create_conversacion", "create_estado_animo",
           "create_habito", "create_registro_habito">>

\* The write steps chat_with_loki runs for one message, in order
WriteSteps(w, u, mood_level, mention) ==
    <<"update_trust_level", "create_conversacion">>
    \o (IF mood_level # 0 THEN <<"create_estado_animo">> ELSE <<>>)
    \o (IF mention = "None" THEN <<>>
        ELSE (IF HabitExists(w, u, mention) THEN <<>> ELSE <<"create_habito">>)
             \o <<"create_registro_habito">>)

\* One write step, run to the end of its db.commit()
ApplyStep(s, paso, u, mention) ==
    CASE paso = "update_trust_level" ->
             [s EXCEPT !.w = update_trust_level(@, u).w]
      [] paso = "create_conversacion" ->
             [s EXCEPT !.filas.conversaciones = @ + 1]
      [] paso = "create_estado_animo" ->
             [s EXCEPT !.filas.estados_animo = @ + 1]
      [] paso = "create_habito" ->
             [s EXCEPT !.w = create_habito(@, u, mention, TRUE).w]
      [] paso = "create_registro_habito" ->
             [s EXCEPT !.filas.registros = @ + 1]

RECURSIVE RunSteps(_, _, _, _, _)
RunSteps(s, steps, u, mention, n) ==
    IF n = 0 THEN s
    ELSE ApplyStep(RunSteps(s, steps, u, mention, n - 1), steps[n], u, mention)

\* How many steps are persisted when step `falla` raises before its commit
\* (0: no step raises) and db.rollback() runs: the commits of the steps before
\* it have ended their transactions, except a first commit that only released
\* the savepoint
Committed(falla, n, releases_savepoint) ==
    IF falla = 0 THEN n
    ELSE IF releases_savepoint /\ falla <= 2 THEN 0
    ELSE falla - 1

chat_with_loki_writes(w, filas, u, mood_level, mention, falla, releases_savepoint) ==
    LET r == get_usuario(w, u)
        steps == WriteSteps(r.w, u, mood_level, mention)
        s == RunSteps([w |-> r.w, filas |-> filas], steps, u, mention,
                      Committed(falla, Len(steps), releases_savepoint))
    IN  IF ~r.result.exists
        THEN [w |-> r.w, filas |-> filas, status |-> 404, pasos |-> <<>>]
        ELSE IF IsExpired(r.result)
        THEN [w |-> r.w, filas |-> filas, status |-> 500, pasos |-> <<>>]
        ELSE [w |-> CloseSession(s.w, u, ~r.hit, TRUE), filas |-> s.filas,
              status |-> IF falla = 0 THEN 200 ELSE 500, pasos |-> steps]

InitChat ==
    /\ usuarios = [u \in Usuarios |-> IF u = 1 THEN NewUsuario("Usuario") ELSE NoRow]
    /\ habitos = NoHabitos
    /\ correlaciones = NoCorrelaciones
    /\ InitCaches
    /\ pc = [s \in Sessions |-> "idle"]
    /\ loc \in [commit_releases_savepoint : BOOLEAN]
    /\ arg = NoFilas
    /\ out = <<>>
    /\ ret = NoRet
    /\ hist = IdleHist

ChatWrites ==
    \E u \in Usuarios, mood_level \in MoodLevelInputs, mention \in MentionInputs,
       falla \in 0..Len(Pasos) :
        LET r == chat_with_loki_writes(World, arg, u, mood_level, mention, falla,
                                       loc.commit_releases_savepoint)
        IN  /\ ~NeedsId(World, u, mention)
            /\ falla <= Len(WriteSteps(World, u, mood_level, mention))
            /\ Len(r.pasos) = 0 => falla = 0
            /\ Bounded(r.w)
            /\ Install(r.w)
            /\ arg' = r.filas
            /\ ret' = [op |-> "chat_with_loki", usuario_id |-> u, status |-> r.status,
                       mention |-> mention, pasos |-> r.pasos, falla |-> falla]
            /\ UNCHANGED <<reqVars, out, hist>>

ExpireUsuarioEntry ==
    \E u \in Usuarios :
        /\ usuario_cache[u].cached
        /\ Install(ExpireKey(World, "usuario", u))
        /\ ret' = NoRet
        /\ UNCHANGED <<hist, reqVars, fnVars>>

NextChat ==
    \/ ChatWrites
    \/ ExpireUsuarioEntry

SpecChat == InitChat /\ [][NextChat]_vars

\* A step of chat_with_loki that got as far as its write steps
ChatWrote == ret'.op = "chat_with_loki" /\ Len(ret'.pasos) > 0

Added(paso) == IF \E i \in 1..Len(ret'.pasos) : ret'.pasos[i] = paso THEN 1 ELSE 0

NothingPersisted ==
    /\ usuarios' = usuarios
    /\ habitos' = habitos
    /\ arg' = arg

AllPersisted ==
    /\ usuarios'[ret'.usuario_id].total_interacciones
         = usuarios[ret'.usuario_id].total_interacciones + 1
    /\ arg'.conversaciones = arg.conversaciones + 1
    /\ arg'.estados_animo = arg.estados_animo + Added("create_estado_animo")
    /\ arg'.registros = arg.registros + Added("create_registro_habito")
    /\ Cardinality({h \in HabitoIds : habitos'[h].exists})
         = Cardinality({h \in HabitoIds : habitos[h].exists}) + Added("create_habito")

\* C28: the writes of one chat message are all-or-nothing: when a write step
\* of chat_with_loki fails, the user row (interaction counter included), the
\* habits and the conversation, mood and habit record rows are as before the
\* message; when no step fails, every write of the message is persisted
C28_AllOrNothing ==
    [][ChatWrote => IF ret'.status = 200 THEN AllPersisted ELSE NothingPersisted]_vars

\* When no step fails, every write of the message is persisted
SuccessPersistsAll ==
    [][ChatWrote /\ ret'.status = 200 => AllPersisted]_vars

\* A failure of the first step leaves nothing of the message persisted
FirstStepFailurePersistsNothing ==
    [][ChatWrote /\ ret'.falla = 1 => NothingPersisted]_vars

----------------------------------------------------------------------------
(* SpecCorrelaciones: analysis runs of user 1 in concurrent database sessions *)
(* and direct creation of correlation rows.  A run first computes its report  *)
(* and looks up the existing row of each correlation, then commits.           *)

\* The existing row (0: none) that the session found for each correlation
Lookups(rows, usuario_id, corrs) ==
    [i \in 1..Len(corrs) |-> Existing(rows, usuario_id, corrs[i].habit)]

\* db.commit(): the UPDATE of every row the session changed, the INSERT of every
\* row it added
Flush(rows, usuario_id, corrs, times, existing) ==
    LET Row(i)   == NewCorrelacion(usuario_id, corrs[i], times[i])
        Last(k)  == CHOOSE i \in 1..Len(corrs) :
                        /\ existing[i] = k
                        /\ \A j \in 1..Len(corrs) : existing[j] = k => j <= i
        added    == SelectSeq([i \in 1..Len(corrs) |-> i], LAMBDA i : existing[i] = 0)
    IN  [k \in 1..Len(rows) |->
            IF \E i \in 1..Len(corrs) : existing[i] = k THEN Row(Last(k)) ELSE rows[k]]
        \o [j \in 1..Len(added) |-> Row(added[j])]

\* crud.create_correlacion(db, correlacion, usuario_id): db.add, db.commit
create_correlacion(rows, usuario_id, correlacion, now) ==
    Append(rows, [usuario_id |-> usuario_id, factor |-> correlacion.factor,
                  impacto_animo |-> correlacion.impacto_animo,
                  confianza_estadistica |-> correlacion.confianza_estadistica,
                  num_datos |-> correlacion.num_datos, fecha_calculo |-> now])

CorrelacionInputs ==
    [factor : {"correr", "leer"}, impacto_animo : {500}, confianza_estadistica : {50},
     num_datos : {1}]

InitCorrelaciones ==
    /\ usuarios = [u \in Usuarios |-> IF u = 1 THEN NewUsuario("Usuario") ELSE NoRow]
    /\ \E nombre \in {"correr", "leer"} :
          habitos = <<[exists |-> TRUE, usuario_id |-> 1, nombre_habito |-> "correr",
                       activo |-> TRUE],
                      [exists |-> TRUE, usuario_id |-> 1, nombre_habito |-> nombre,
                       activo |-> TRUE]>>
    /\ correlaciones = NoCorrelaciones
    /\ InitCaches
    /\ pc = [t \in Threads |-> "idle"]
    /\ loc = [t \in Threads |-> NoRow]
    /\ arg = [moods |-> [d \in Dias |-> IF d = 0 THEN [n |-> 0, nivel |-> 1]
                                         ELSE IF d = 1 THEN [n |-> 5, nivel |-> 10]
                                         ELSE [n |-> 5, nivel |-> 1]],
              registros |-> <<[dias |-> {1}, por_dia |-> 5], [dias |-> {2}, por_dia |-> 5]>>]
    /\ out = NoRet
    /\ ret = NoRet
    /\ hist = [reloj |-> 0, fallo |-> FALSE]

\* analyze_user_patterns up to the db.commit() of _save_correlations_to_db
AnalysisQuery(t) ==
    LET rep == Report(habitos, arg.moods, arg.registros)
    IN  /\ pc[t] = "idle"
        /\ hist.reloj <= MaxReloj
        /\ rep.has_enough_data
        /\ \E times \in Clocks(hist.reloj, Len(rep.correlations)) :
              /\ loc' = [loc EXCEPT ![t] =
                            [report |-> rep, times |-> times,
                             existing |-> Lookups(correlaciones, 1, rep.correlations)]]
              /\ hist' = [hist EXCEPT !.reloj = IF times = <<>> THEN @
                                                ELSE times[Len(times)]]
        /\ pc' = [pc EXCEPT ![t] = "commit"]
        /\ UNCHANGED <<dbVars, cacheVars, ret, fnVars>>

\* db.commit() and the return of the report
AnalysisCommit(t) ==
    /\ pc[t] = "commit"
    /\ Len(correlaciones) + Cardinality({i \in DOMAIN loc[t].existing : loc[t].existing[i] = 0})
           <= MaxFilas
    /\ correlaciones' = Flush(correlaciones, 1, loc[t].report.correlations,
                              loc[t].times, loc[t].existing)
    /\ out' = loc[t].report
    /\ pc' = [pc EXCEPT ![t] = "idle"]
    /\ loc' = [loc EXCEPT ![t] = NoRow]
    /\ UNCHANGED <<usuarios, habitos, cacheVars, ret, hist, arg>>

\* crud.create_correlacion(db, correlacion, 1), as the analytics route calls it
CreateCorrelacion ==
    \E correlacion \in CorrelacionInputs :
        /\ Len(correlaciones) < MaxFilas
        /\ correlaciones' = create_correlacion(correlaciones, 1, correlacion, hist.reloj)
        /\ ret' = [op |-> "create_correlacion", factor |-> correlacion.factor]
        /\ UNCHANGED <<usuarios, habitos, cacheVars, reqVars, hist, fnVars>>

NextCorrelaciones ==
    \/ \E t \in Threads : AnalysisQuery(t)
    \/ \E t \in Threads : AnalysisCommit(t)
    \/ CreateCorrelacion

SpecCorrelaciones == InitCorrelaciones /\ [][NextCorrelaciones]_vars

\* C19: the correlations table never holds two rows with the same usuario_id and
\* factor, whatever analysis runs (also concurrent ones) and direct creations of
\* correlations have taken place.
C19_OneRowPerFactor ==
    \A i, j \in 1..Len(correlaciones) :
        (correlaciones[i].usuario_id = correlaciones[j].usuario_id
            /\ correlaciones[i].factor = correlaciones[j].factor) => i = j

====
